---------------------------- MODULE Spec2Model ----------------------------
(***************************************************************************)
(* Alphabot IA: the deterministic core of the sales assistant.             *)
(*                                                                         *)
(*   ingestion : normalizeHeader, parseDate, normalizeRow                  *)
(*               (supabase/functions/chat/index.ts, lines 180-265)         *)
(*   query time: filterData, analyzeData (unnamed/part_000, lines 92-208)  *)
(*   handlers  : chat (unnamed/part_000, lines 210-411), sync-google-drive  *)
(*   page      : handleSend and its streams (src/pages/Chat.tsx)            *)
(*                                                                         *)
(* JavaScript strings are TLA+ strings; a JavaScript object is a record    *)
(* whose DOMAIN holds exactly the properties that are set, so "row.Mes is  *)
(* undefined" is "Mes" \notin DOMAIN row.                                  *)
(***************************************************************************)
EXTENDS Integers, Sequences, FiniteSets, TLC

VARIABLES
    pc,          \* position of the function under execution
    header,      \* normalizeHeader: the raw column name
    standard,    \* normalizeHeader: the returned name
    dateStr,     \* parseDate: the raw cell
    parsed,      \* parseDate: the returned record, or null
    headerMap,   \* normalizeRow: the Map original -> standard, in insertion order
    row,         \* normalizeRow: the raw row, one cell per entry of headerMap
    normalized,  \* normalizeRow: the returned row
    data,        \* filterData / analyzeData: the input rows
    context,     \* filterData / analyzeData: the QueryContext
    filtered,    \* filterData: the returned rows
    analysis,    \* analyzeData: the returned AnalysisResult, or the exception
    query,       \* parseQuery: the text of the user's question
    req,         \* chat handler: the HTTP request
    store,       \* the spreadsheets table: the rows stored for the user
    spreadsheets,\* chat handler: the result of the database read
    fetched,     \* chat handler: the call made to the language model
    response,    \* chat handler: the HTTP response returned
    calls,       \* chat handler: the calls made so far, in order
    user,        \* the user auth.getUser returned
    drive,       \* sync handler: what Google and the environment will answer
    results,     \* sync handler: the results array
    stored,      \* sync handler: the spreadsheets table when the request arrived
    messages,    \* chat page: the messages state
    input,       \* chat page: the input state
    isLoading,   \* chat page: the isLoading state
    session,     \* chat page: whether useAuth() gives a session
    streams      \* chat page: the calls of handleSend under way

\* the variables of the chat handler
serveVars == <<req, store, spreadsheets, fetched, response, calls, user>>

\* the variables of the sync handler (with req, store, response, calls, user)
syncVars == <<drive, results, stored>>

\* the variables of the chat page
pageVars == <<messages, input, isLoading, session, streams>>

\* the variables of the functions called one at a time
coreVars == <<header, standard, dateStr, parsed, headerMap, row, normalized,
              data, context, filtered, analysis, query>>

vars == <<pc, header, standard, dateStr, parsed, headerMap, row, normalized,
          data, context, filtered, analysis, query, serveVars, syncVars,
          pageVars>>

\* JavaScript's null / "not computed yet" marker for the result variables.
null == [null |-> TRUE]

\* An uncaught TypeError leaving a function.
TypeError == [exception |-> "TypeError"]

-----------------------------------------------------------------------------
(* Strings *)

CharAt(s, i) == SubSeq(s, i, i)

Upper == "ABCDEFGHIJKLMNOPQRSTUVWXYZ"
Lower == "abcdefghijklmnopqrstuvwxyz"
Digits == "0123456789"

\* c occurs in the string set
InChars(c, set) == \E i \in 1..Len(set) : CharAt(set, i) = c

IndexIn(c, set) == CHOOSE i \in 1..Len(set) : CharAt(set, i) = c

IsDigit(c) == InChars(c, Digits)

\* White space as String.prototype.trim and parseInt see it.
IsSpace(c) == c \in {" ", "\t", "\n", "\r"}

\* the accented capitals of Portuguese and their small letters
UpperAccented == "ÁÂÃÀÇÉÊÍÓÔÕÚ"
LowerAccented == "áâãàçéêíóôõú"

UpperChars ==
    {CharAt(Upper \o UpperAccented, i) : i \in 1..Len(Upper \o UpperAccented)}

LowerOf ==
    [c \in UpperChars |->
        CharAt(Lower \o LowerAccented, IndexIn(c, Upper \o UpperAccented))]

\* String.prototype.toLowerCase
RECURSIVE toLowerCase(_)
toLowerCase(s) ==
    IF s = "" THEN ""
    ELSE LET c == CharAt(s, 1)
         IN  (IF c \in UpperChars THEN LowerOf[c] ELSE c) \o toLowerCase(Tail(s))

RECURSIVE trimStart(_)
trimStart(s) ==
    IF s # "" /\ IsSpace(CharAt(s, 1)) THEN trimStart(Tail(s)) ELSE s

RECURSIVE trimEnd(_)
trimEnd(s) ==
    IF s # "" /\ IsSpace(CharAt(s, Len(s)))
    THEN trimEnd(SubSeq(s, 1, Len(s) - 1)) ELSE s

\* String.prototype.trim
trim(s) == trimEnd(trimStart(s))

\* String.prototype.includes
includes(s, v) ==
    \E i \in 1..(Len(s) - Len(v) + 1) : SubSeq(s, i, i + Len(v) - 1) = v

\* s.replace(/[^<keep>]/g, by): every character outside keep becomes by
RECURSIVE replaceOutside(_, _, _)
replaceOutside(s, keep, by) ==
    IF s = "" THEN ""
    ELSE (IF InChars(CharAt(s, 1), keep) THEN CharAt(s, 1) ELSE by)
         \o replaceOutside(Tail(s), keep, by)

\* s.replace(',', '.'): the first comma only
RECURSIVE replaceFirstComma(_)
replaceFirstComma(s) ==
    IF s = "" THEN ""
    ELSE IF CharAt(s, 1) = "," THEN "." \o Tail(s)
    ELSE CharAt(s, 1) \o replaceFirstComma(Tail(s))

\* The value of a string of decimal digits ("" is 0).
RECURSIVE DigitsValue(_)
DigitsValue(s) ==
    IF s = "" THEN 0
    ELSE 10 * DigitsValue(SubSeq(s, 1, Len(s) - 1))
         + (IndexIn(CharAt(s, Len(s)), Digits) - 1)

AllDigits(s) == \A i \in 1..Len(s) : IsDigit(CharAt(s, i))

\* Number.prototype.toString of a non-negative integer
RECURSIVE NatToString(_)
NatToString(n) ==
    IF n < 10 THEN CharAt(Digits, n + 1)
    ELSE NatToString(n \div 10) \o CharAt(Digits, (n % 10) + 1)

\* Number.prototype.toString of an integer
IntToString(n) == IF n < 0 THEN "-" \o NatToString(-n) ELSE NatToString(n)

\* String.prototype.padStart(2, '0')
padStart2(s) == IF Len(s) < 2 THEN (IF Len(s) = 0 THEN "00" ELSE "0" \o s) ELSE s

-----------------------------------------------------------------------------
(* Header normalizer *)

\* SCHEMA_MAPPING, in the order Object.entries iterates it
SCHEMA_MAPPING == <<
    [standard |-> "Data",
     variants |-> <<"data", "date", "fecha", "datum">>],
    [standard |-> "ID_Transacao",
     variants |-> <<"id_transacao", "id", "transacao", "transaction_id", "id_venda">>],
    [standard |-> "Produto",
     variants |-> <<"produto", "product", "item", "articulo">>],
    [standard |-> "Categoria",
     variants |-> <<"categoria", "category", "tipo", "type">>],
    [standard |-> "Regiao",
     variants |-> <<"regiao", "region", "area", "estado", "state">>],
    [standard |-> "Quantidade",
     variants |-> <<"quantidade", "qtd", "quantity", "qty", "unidades">>],
    [standard |-> "Preco_Unitario",
     variants |-> <<"preco_unitario", "preco", "price", "unit_price", "valor_unitario">>],
    [standard |-> "Receita_Total",
     variants |-> <<"receita_total", "valor_total", "total", "revenue", "receita">>] >>

\* header.toLowerCase().trim().replace(/[^a-z0-9_]/g, '_')
cleanHeader(h) ==
    replaceOutside(trim(toLowerCase(h)), Lower \o Digits \o "_", "_")

\* variants.some(v => cleaned.includes(v))
someVariant(variants, cleaned) ==
    \E k \in 1..Len(variants) : includes(cleaned, variants[k])

\* the loop run over the table from its last entry to its first
RECURSIVE normalizeFromLast(_, _, _)
normalizeFromLast(h, cleaned, i) ==
    IF i > Len(SCHEMA_MAPPING) THEN h
    ELSE LET e == SCHEMA_MAPPING[Len(SCHEMA_MAPPING) + 1 - i]
         IN  IF someVariant(e.variants, cleaned) THEN e.standard
             ELSE normalizeFromLast(h, cleaned, i + 1)

\* the for loop over Object.entries(SCHEMA_MAPPING), from entry i on
RECURSIVE normalizeFrom(_, _, _)
normalizeFrom(h, cleaned, i) ==
    IF i > Len(SCHEMA_MAPPING) THEN h
    ELSE IF someVariant(SCHEMA_MAPPING[i].variants, cleaned)
         THEN SCHEMA_MAPPING[i].standard
         ELSE normalizeFrom(h, cleaned, i + 1)

normalizeHeader(h) == normalizeFrom(h, cleanHeader(h), 1)

-----------------------------------------------------------------------------
(* Inputs of the header normalizer *)

MaxHeaderWords == 2

HeaderWords ==
    {"Qtd", "Vendida", "Valor", "Total", " ", "(R$)", "ID", "Unidades",
     "Preco", "Data", "Tipo", "x"}

RECURSIVE WordStrings(_)
WordStrings(n) ==
    IF n = 0 THEN {""}
    ELSE LET shorter == WordStrings(n - 1)
         IN  shorter \cup {w \o s : w \in HeaderWords, s \in shorter}

CanonicalHeaders ==
    {"Data", "ID_Transacao", "Produto", "Categoria", "Regiao", "Quantidade",
     "Preco_Unitario", "Receita_Total"}

Headers ==
    WordStrings(MaxHeaderWords) \cup CanonicalHeaders
    \cup {"Valor Total (R$)", "Qtd Vendida", "  Revenue\t", "Estoque", "Cliente"}


-----------------------------------------------------------------------------
(* Date parser *)

\* the pieces of s between occurrences of the one-character separator sep
RECURSIVE Split(_, _)
Split(s, sep) ==
    IF \A i \in 1..Len(s) : CharAt(s, i) # sep THEN <<s>>
    ELSE LET p == CHOOSE i \in 1..Len(s) :
                     /\ CharAt(s, i) = sep
                     /\ \A j \in 1..(i - 1) : CharAt(s, j) # sep
         IN  <<SubSeq(s, 1, p - 1)>> \o Split(SubSeq(s, p + 1, Len(s)), sep)

\* \d{lo,hi}
DigitRun(s, lo, hi) == AllDigits(s) /\ Len(s) >= lo /\ Len(s) <= hi

\* str.match(/^(\d{4})-(\d{1,2})-(\d{1,2})$/)
matchISO(str) ==
    LET m == Split(str, "-")
    IN  IF /\ Len(m) = 3
           /\ DigitRun(m[1], 4, 4) /\ DigitRun(m[2], 1, 2) /\ DigitRun(m[3], 1, 2)
        THEN m ELSE <<>>

\* str.match(/^(\d{1,2})\/(\d{1,2})\/(\d{4})$/)
matchSlash(str) ==
    LET m == Split(str, "/")
    IN  IF /\ Len(m) = 3
           /\ DigitRun(m[1], 1, 2) /\ DigitRun(m[2], 1, 2) /\ DigitRun(m[3], 4, 4)
        THEN m ELSE <<>>

\* the first group always taken as the day
dayMonthDayFirst(d1, d2) == <<d1, d2>>

\* const [day, month] = d1 > 12 ? [d1, d2] : [d2, d1]
dayMonth(d1, d2) == IF d1 > 12 THEN <<d1, d2>> ELSE <<d2, d1>>

\* parseDate of a string cell; an undefined cell is handled by the caller
parseDate(str0) ==
    IF str0 = "" THEN null
    ELSE LET str == trim(str0)
             iso == matchISO(str)
             sl  == matchSlash(str)
         IN  IF iso # <<>>
             THEN [date  |-> iso[1] \o "-" \o padStart2(iso[2]) \o "-" \o padStart2(iso[3]),
                   year  |-> DigitsValue(iso[1]),
                   month |-> DigitsValue(iso[2])]
             ELSE IF sl # <<>>
             THEN LET d1   == DigitsValue(sl[1])
                      d2   == DigitsValue(sl[2])
                      year == DigitsValue(sl[3])
                      dm   == dayMonth(d1, d2)
                  IN  [date  |-> IntToString(year) \o "-"
                                 \o padStart2(IntToString(dm[2])) \o "-"
                                 \o padStart2(IntToString(dm[1])),
                       year  |-> year,
                       month |-> dm[2]]
             ELSE null

\* Math.ceil(month / 3) for month >= 0
ceilDiv3(month) == (month + 2) \div 3

-----------------------------------------------------------------------------
(* Inputs of the date parser *)

MaxDateNum == 31

\* a day or month number as a spreadsheet writes it: "5" or "05"
NumStrings == {IntToString(n) : n \in 0..MaxDateNum}
              \cup {padStart2(IntToString(n)) : n \in 0..MaxDateNum}

YearStrings == {"2023", "2024"}

DateStrings ==
    {a \o "/" \o b \o "/" \o y : a \in NumStrings, b \in NumStrings, y \in YearStrings}
    \cup {y \o "-" \o a \o "-" \o b : a \in {"3", "03", "12", "13", "0"},
                                      b \in {"5", "05", "31"}, y \in YearStrings}
    \cup {"", " 15/03/2024 ", "15-03-2024", "2024/03/15", "15/03/24",
          "marco 2024", "2024-03-15T10:00", "1/2/3/2024"}


-----------------------------------------------------------------------------
(* Numbers read from cells *)

\* A parsed decimal n / 10^k, kept with no trailing zero in the fraction.
RECURSIVE Dec(_, _)
Dec(n, k) == IF k > 0 /\ n % 10 = 0 THEN Dec(n \div 10, k - 1) ELSE [n |-> n, k |-> k]

Zero == Dec(0, 0)

\* the length of the longest prefix of s made of characters of set
RECURSIVE PrefixLen(_, _)
PrefixLen(s, set) ==
    IF s # "" /\ InChars(CharAt(s, 1), set) THEN 1 + PrefixLen(Tail(s), set) ELSE 0

HexDigits == "0123456789abcdef"

RECURSIVE HexValue(_)
HexValue(s) ==
    IF s = "" THEN 0
    ELSE 16 * HexValue(SubSeq(s, 1, Len(s) - 1))
         + (IndexIn(CharAt(s, Len(s)), HexDigits) - 1)

\* parseInt(string) with no radix: leading white space, an optional sign, an
\* optional 0x prefix, then the longest run of digits. [nan, value]
parseInt(s) ==
    LET t      == trimStart(s)
        signed == t # "" /\ CharAt(t, 1) \in {"-", "+"}
        sign   == IF t # "" /\ CharAt(t, 1) = "-" THEN -1 ELSE 1
        body   == IF signed THEN Tail(t) ELSE t
        hex    == Len(body) >= 2 /\ toLowerCase(SubSeq(body, 1, 2)) = "0x"
        digs   == IF hex THEN toLowerCase(SubSeq(body, 3, Len(body))) ELSE body
        len    == PrefixLen(digs, IF hex THEN HexDigits ELSE Digits)
        run    == SubSeq(digs, 1, len)
    IN  [nan   |-> len = 0,
         value |-> sign * (IF hex THEN HexValue(run) ELSE DigitsValue(run))]

\* parseFloat of a string made of digits, '.' and ',' only: digits, then an
\* optional '.' and digits. [nan, value]
parseFloat(s) ==
    LET ilen == PrefixLen(s, Digits)
        int  == SubSeq(s, 1, ilen)
        rest == SubSeq(s, ilen + 1, Len(s))
        dot  == rest # "" /\ CharAt(rest, 1) = "."
        flen == IF dot THEN PrefixLen(Tail(rest), Digits) ELSE 0
        frac == IF dot THEN SubSeq(rest, 2, flen + 1) ELSE ""
    IN  [nan   |-> ilen = 0 /\ flen = 0,
         value |-> Dec(DigitsValue(int \o frac), flen)]

\* s without its trailing zeros
RECURSIVE stripZeros(_)
stripZeros(s) ==
    IF Len(s) > 1 /\ CharAt(s, Len(s)) = "0"
    THEN stripZeros(SubSeq(s, 1, Len(s) - 1)) ELSE s

RECURSIVE zeros(_)
zeros(n) == IF n <= 0 THEN "" ELSE "0" \o zeros(n - 1)

\* d, or d.ddd, then e and the signed exponent
exponential(digits, exponent) ==
    CharAt(digits, 1)
    \o (IF Len(digits) > 1 THEN "." \o Tail(digits) ELSE "")
    \o (IF exponent < 0 THEN "e-" ELSE "e+") \o NatToString(IF exponent < 0 THEN -exponent ELSE exponent)

\* String(value) of the number n / 10^k (Number::toString): plain decimal
\* digits when 10^-7 <= |value| < 10^21, exponential notation otherwise
numberString(d) ==
    LET digits == NatToString(IF d.n < 0 THEN -d.n ELSE d.n)
        point  == Len(digits) - d.k
    IN  IF d.n = 0 THEN "0"
        ELSE (IF d.n < 0 THEN "-" ELSE "")
             \o (IF point > 21 \/ point <= -6
                 THEN exponential(stripZeros(digits), point - 1)
                 ELSE IF d.k = 0 THEN digits
                 ELSE IF point > 0
                 THEN SubSeq(digits, 1, point) \o "." \o SubSeq(digits, point + 1, Len(digits))
                 ELSE "0." \o zeros(-point) \o digits)

-----------------------------------------------------------------------------
(* Row normalizer *)

EmptyObject == [k \in {} |-> TRUE]

\* obj[key] = value
Put(obj, key, value) ==
    [k \in DOMAIN obj \cup {key} |-> IF k = key THEN value ELSE obj[k]]

\* obj[key] = undefined
Unset(obj, key) == [k \in DOMAIN obj \ {key} |-> obj[k]]

Has(obj, key) == key \in DOMAIN obj

\* the fields normalizeRow writes as numbers: a cell of a sheet column is a
\* string, a field of these names in a row already normalized is a number
IntegerFields == {"Quantidade"}
AmountFields  == {"Preco_Unitario", "Receita_Total"}

\* String(value) of a cell that may be undefined
cellString(r, original) ==
    IF ~Has(r, original) THEN "undefined"
    ELSE IF original \in IntegerFields THEN IntToString(r[original])
    ELSE IF original \in AmountFields THEN numberString(r[original])
    ELSE r[original]

\* the Data branch
putDate(n, r, original) ==
    LET p == IF Has(r, original) THEN parseDate(r[original]) ELSE null
    IN  IF p # null
        THEN Put(Put(Put(Put(n, "Data", p.date), "Ano", p.year), "Mes", p.month),
                 "Trimestre", ceilDiv3(p.month))
        ELSE n

\* parseInt(value) || 0
quantityOf(r, original) ==
    LET q == parseInt(cellString(r, original))
    IN  IF q.nan THEN 0 ELSE q.value

\* parseFloat(String(value).replace(/[^0-9.,]/g, '').replace(',', '.')) || 0
amountOf(r, original) ==
    LET cleaned == replaceFirstComma(replaceOutside(cellString(r, original),
                                                    Digits \o ".,", ""))
        f == parseFloat(cleaned)
    IN  IF f.nan THEN Zero ELSE f.value

\* one iteration of the loop over headerMap.entries()
normalizeEntry(n, r, entry) ==
    IF entry.standard = "Data" THEN putDate(n, r, entry.original)
    ELSE IF entry.standard = "Quantidade"
    THEN Put(n, "Quantidade", quantityOf(r, entry.original))
    ELSE IF entry.standard \in {"Preco_Unitario", "Receita_Total"}
    THEN Put(n, entry.standard, amountOf(r, entry.original))
    ELSE IF Has(r, entry.original)
         THEN Put(n, entry.standard, r[entry.original])
         ELSE Unset(n, entry.standard)

RECURSIVE normalizeEntries(_, _, _, _)
normalizeEntries(n, r, hm, i) ==
    IF i > Len(hm) THEN n
    ELSE normalizeEntries(normalizeEntry(n, r, hm[i]), r, hm, i + 1)

\* the derivation tried only when Receita_Total is missing, not when it is 0
shouldDeriveWhenMissing(n) ==
    /\ ~Has(n, "Receita_Total")
    /\ Has(n, "Quantidade") /\ n.Quantidade # 0
    /\ Has(n, "Preco_Unitario") /\ n.Preco_Unitario # Zero

\* !normalized.Receita_Total && normalized.Quantidade && normalized.Preco_Unitario
shouldDerive(n) ==
    /\ ~Has(n, "Receita_Total") \/ n.Receita_Total = Zero
    /\ Has(n, "Quantidade") /\ n.Quantidade # 0
    /\ Has(n, "Preco_Unitario") /\ n.Preco_Unitario # Zero

\* Quantidade * Preco_Unitario
times(q, p) == Dec(q * p.n, p.k)

deriveRevenue(n) ==
    IF shouldDerive(n)
    THEN Put(n, "Receita_Total", times(n.Quantidade, n.Preco_Unitario))
    ELSE n

normalizeRow(r, hm) == deriveRevenue(normalizeEntries(EmptyObject, r, hm, 1))

-----------------------------------------------------------------------------
(* Inputs of the row normalizer *)

MaxCols == 3

\* the original header of column i
Original(i) == "col" \o IntToString(i)

\* the canonical names normalizeHeader gave the columns ("Cliente": no match)
Standards ==
    {"Data", "Quantidade", "Preco_Unitario", "Receita_Total", "Cliente"}

\* the cells a column of each kind is fed
CellsOf(std) ==
    CASE std = "Data" -> {"15/03/2024", "2024-3-5", "2024-13-01", "00/00/2024", "n/d"}
      [] std = "Quantidade" -> {"3", "0", "-5", "12 un", "abc", ""}
      [] std = "Preco_Unitario" -> {"2,50", "R$ 10", "-", "0,0000001"}
      [] std = "Receita_Total" -> {"7,5", "R$ 1.234,56", "x"}
      [] OTHER -> {"Ana"}

HeaderMaps ==
    UNION {[1..n -> Standards] : n \in 0..MaxCols}

\* headerMap as the list of its entries
Entries(stds) ==
    [i \in 1..Len(stds) |-> [original |-> Original(i), standard |-> stds[i]]]

\* the raw rows of a sheet whose first i columns are stds[1..i]: every cell
\* is a string of the column's kind, or missing from the row
RECURSIVE RowsUpTo(_, _)
RowsUpTo(stds, i) ==
    IF i = 0 THEN {EmptyObject}
    ELSE LET shorter == RowsUpTo(stds, i - 1)
         IN  shorter \cup {Put(r, Original(i), c) : r \in shorter, c \in CellsOf(stds[i])}

RowsOf(stds) == RowsUpTo(stds, Len(stds))

\* the rows normalizeRow returns on the sheets of the given header maps
NormalizedRows(maps) ==
    UNION {{normalizeRow(r, Entries(stds)) : r \in RowsOf(stds)} : stds \in maps}

\* the fields of a normalized row, in the order normalizeRow sets them
FieldOrder ==
    <<"Data", "Ano", "Mes", "Trimestre", "Quantidade", "Preco_Unitario",
      "Receita_Total", "Cliente">>

RECURSIVE fieldsFrom(_, _)
fieldsFrom(r, i) ==
    IF i > Len(FieldOrder) THEN <<>>
    ELSE (IF Has(r, FieldOrder[i]) THEN <<FieldOrder[i]>> ELSE <<>>)
         \o fieldsFrom(r, i + 1)

\* the header map of a normalized sheet: every header is mapped to itself
IdentityMap(r) ==
    LET fields == fieldsFrom(r, 1)
    IN  [i \in 1..Len(fields) |-> [original |-> fields[i], standard |-> fields[i]]]

-----------------------------------------------------------------------------
(* Query context and data filter *)

\* MONTHS_PT, in the order Object.keys iterates it
MONTHS_PT == <<
    [name |-> "janeiro", num |-> 1],    [name |-> "jan", num |-> 1],
    [name |-> "fevereiro", num |-> 2],  [name |-> "fev", num |-> 2],
    [name |-> "março", num |-> 3], [name |-> "mar", num |-> 3],
    [name |-> "abril", num |-> 4],      [name |-> "abr", num |-> 4],
    [name |-> "maio", num |-> 5],       [name |-> "mai", num |-> 5],
    [name |-> "junho", num |-> 6],      [name |-> "jun", num |-> 6],
    [name |-> "julho", num |-> 7],      [name |-> "jul", num |-> 7],
    [name |-> "agosto", num |-> 8],     [name |-> "ago", num |-> 8],
    [name |-> "setembro", num |-> 9],   [name |-> "set", num |-> 9],
    [name |-> "outubro", num |-> 10],   [name |-> "out", num |-> 10],
    [name |-> "novembro", num |-> 11],  [name |-> "nov", num |-> 11],
    [name |-> "dezembro", num |-> 12],  [name |-> "dez", num |-> 12] >>

\* [...new Set(rows.map(r => r[field]))]: the distinct defined values in
\* first-seen order, and whether undefined is among them
RECURSIVE distinctFrom(_, _, _, _)
distinctFrom(rows, field, i, seen) ==
    IF i > Len(rows) THEN seen
    ELSE LET r == rows[i]
         IN  distinctFrom(rows, field, i + 1,
                 IF ~Has(r, field) THEN [seen EXCEPT !.undef = TRUE]
                 ELSE IF \E j \in 1..Len(seen.vals) : seen.vals[j] = r[field] THEN seen
                 ELSE [seen EXCEPT !.vals = Append(@, r[field])])

distinctValues(rows, field) ==
    distinctFrom(rows, field, 1, [vals |-> <<>>, undef |-> FALSE])

\* \w of a regular expression without the u flag
IsWordChar(c) == InChars(c, Upper \o Lower \o Digits \o "_")

\* \b at the position before character i of s (i in 1..Len(s) + 1)
boundary(s, i) ==
    (i > 1 /\ IsWordChar(CharAt(s, i - 1))) # (i <= Len(s) /\ IsWordChar(CharAt(s, i)))

\* w occurs in s from character i
startsAt(s, i, w) == i + Len(w) - 1 <= Len(s) /\ SubSeq(s, i, i + Len(w) - 1) = w

\* /\b(20\d{2})\b/ matches s at character i
yearAt(s, i) ==
    /\ boundary(s, i)
    /\ startsAt(s, i, "20")
    /\ i + 3 <= Len(s)
    /\ IsDigit(CharAt(s, i + 2)) /\ IsDigit(CharAt(s, i + 3))
    /\ boundary(s, i + 4)

\* query.match(/\b(20\d{2})\b/g).map(y => parseInt(y)): every match from
\* character i on, left to right
RECURSIVE yearsFrom(_, _)
yearsFrom(s, i) ==
    IF i > Len(s) THEN <<>>
    ELSE IF yearAt(s, i)
    THEN <<parseInt(SubSeq(s, i, i + 3)).value>> \o yearsFrom(s, i + 4)
    ELSE yearsFrom(s, i + 1)

\* the loop without its test !context.months.includes(num)
RECURSIVE monthsFromPushingAll(_, _, _)
monthsFromPushingAll(lower, i, months) ==
    IF i > Len(MONTHS_PT) THEN months
    ELSE monthsFromPushingAll(lower, i + 1,
            IF includes(lower, MONTHS_PT[i].name)
            THEN Append(months, MONTHS_PT[i].num) ELSE months)

\* the loop over Object.entries(MONTHS_PT), from entry i on
RECURSIVE monthsFrom(_, _, _)
monthsFrom(lower, i, months) ==
    IF i > Len(MONTHS_PT) THEN months
    ELSE monthsFrom(lower, i + 1,
            IF /\ includes(lower, MONTHS_PT[i].name)
               /\ \A j \in 1..Len(months) : months[j] # MONTHS_PT[i].num
            THEN Append(months, MONTHS_PT[i].num) ELSE months)

\* the term lists of the metrics and of the comparison
QuantidadeTerms == {"quantidade", "qtd", "unidades", "volume"}
ReceitaTerms    == {"receita", "valor", "faturamento", "vendas"}
PrecoTerms      == {"preço", "preco", "média", "medio", "ticket"}
ComparisonTerms ==
    {"crescimento", "variação", "variacao", "comparação", "comparacao", "vs", "versus"}

\* lower.match(/\b(t1|t2|...)\b/)
matchesWord(lower, terms) ==
    \E i \in 1..Len(lower), w \in terms :
        boundary(lower, i) /\ startsAt(lower, i, w) /\ boundary(lower, i + Len(w))

metricsOf(lower) ==
    (IF matchesWord(lower, QuantidadeTerms) THEN <<"quantidade">> ELSE <<>>)
    \o (IF matchesWord(lower, ReceitaTerms) THEN <<"receita">> ELSE <<>>)
    \o (IF matchesWord(lower, PrecoTerms) THEN <<"preco_medio">> ELSE <<>>)

TopTerms == {"top", "maior", "melhor", "principal"}

\* the second group of /\b(top|maior|melhor|principal)\s*(\d+)/ when the
\* expression matches s at character i, "" when it does not
topDigitsAt(s, i) ==
    IF boundary(s, i) /\ \E w \in TopTerms : startsAt(s, i, w)
    THEN LET w    == CHOOSE t \in TopTerms : startsAt(s, i, t)
             rest == SubSeq(s, i + Len(w), Len(s))
             sp   == PrefixLen(rest, " \t\n\r")
             tail == SubSeq(rest, sp + 1, Len(rest))
         IN  SubSeq(tail, 1, PrefixLen(tail, Digits))
    ELSE ""

\* the digits of the first match from character i on, "" when there is none
RECURSIVE topMatchFrom(_, _)
topMatchFrom(s, i) ==
    IF i > Len(s) THEN ""
    ELSE IF topDigitsAt(s, i) # "" THEN topDigitsAt(s, i)
    ELSE topMatchFrom(s, i + 1)

\* [...new Set(allData.map(r => r[field]).filter(Boolean))]
uniqueOf(allData, field) ==
    LET vals == distinctValues(allData, field).vals
    IN  SelectSeq(vals, LAMBDA v : v # "")

\* unique.forEach(v => { if (lower.includes(v.toLowerCase())) list.push(v) })
entitiesIn(lower, unique) ==
    SelectSeq(unique, LAMBDA v : includes(lower, toLowerCase(v)))

parseQuery(q, allData) ==
    LET lower == toLowerCase(q)
        top   == topMatchFrom(lower, 1)
        ctx   == [years      |-> yearsFrom(q, 1),
                  months     |-> monthsFrom(lower, 1, <<>>),
                  produtos   |-> entitiesIn(lower, uniqueOf(allData, "Produto")),
                  categorias |-> entitiesIn(lower, uniqueOf(allData, "Categoria")),
                  regioes    |-> entitiesIn(lower, uniqueOf(allData, "Regiao")),
                  metrics    |-> metricsOf(lower),
                  comparison |-> matchesWord(lower, ComparisonTerms)]
    IN  IF top # "" THEN Put(ctx, "topN", parseInt(top).value) ELSE ctx

\* array.includes(obj[field]); an undefined field is in no array of values
includesField(array, obj, field) ==
    Has(obj, field) /\ \E i \in 1..Len(array) : array[i] = obj[field]

\* keepsRow without its last test: the regioes of the context are ignored
keepsRowIgnoringRegioes(r, ctx) ==
    IF Len(ctx.years) > 0 /\ ~includesField(ctx.years, r, "Ano") THEN FALSE
    ELSE IF Len(ctx.months) > 0 /\ ~includesField(ctx.months, r, "Mes") THEN FALSE
    ELSE IF Len(ctx.produtos) > 0 /\ ~includesField(ctx.produtos, r, "Produto") THEN FALSE
    ELSE IF Len(ctx.categorias) > 0 /\ ~includesField(ctx.categorias, r, "Categoria") THEN FALSE
    ELSE TRUE

\* the callback of data.filter
keepsRow(r, ctx) ==
    IF Len(ctx.years) > 0 /\ ~includesField(ctx.years, r, "Ano") THEN FALSE
    ELSE IF Len(ctx.months) > 0 /\ ~includesField(ctx.months, r, "Mes") THEN FALSE
    ELSE IF Len(ctx.produtos) > 0 /\ ~includesField(ctx.produtos, r, "Produto") THEN FALSE
    ELSE IF Len(ctx.categorias) > 0 /\ ~includesField(ctx.categorias, r, "Categoria") THEN FALSE
    ELSE IF Len(ctx.regioes) > 0 /\ ~includesField(ctx.regioes, r, "Regiao") THEN FALSE
    ELSE TRUE

\* the kept rows collected in front: last kept row first
RECURSIVE filterFromUnshift(_, _, _)
filterFromUnshift(rows, ctx, i) ==
    IF i > Len(rows) THEN <<>>
    ELSE filterFromUnshift(rows, ctx, i + 1)
         \o (IF keepsRow(rows[i], ctx) THEN <<rows[i]>> ELSE <<>>)

RECURSIVE filterFrom(_, _, _)
filterFrom(rows, ctx, i) ==
    IF i > Len(rows) THEN <<>>
    ELSE (IF keepsRow(rows[i], ctx) THEN <<rows[i]>> ELSE <<>>)
         \o filterFrom(rows, ctx, i + 1)

filterData(rows, ctx) == filterFrom(rows, ctx, 1)

-----------------------------------------------------------------------------
(* Aggregation engine *)

\* row.field || 0
numberOr0(r, field) == IF Has(r, field) THEN r[field] ELSE 0

RECURSIVE GCD(_, _)
GCD(a, b) == IF b = 0 THEN a ELSE GCD(b, a % b)

Abs(x) == IF x < 0 THEN -x ELSE x

\* the quotient a / b (b > 0) as a fraction in lowest terms
Quotient(a, b) ==
    LET g == GCD(Abs(a), b) IN [num |-> a \div g, den |-> b \div g]

\* the sum that leaves the last row out
RECURSIVE sumFieldButLast(_, _, _)
sumFieldButLast(rows, field, i) ==
    IF i >= Len(rows) THEN 0
    ELSE numberOr0(rows[i], field) + sumFieldButLast(rows, field, i + 1)

RECURSIVE sumField(_, _, _)
sumField(rows, field, i) ==
    IF i > Len(rows) THEN 0
    ELSE numberOr0(rows[i], field) + sumField(rows, field, i + 1)

\* the order of UTF-16 code units among the characters of a number's string
CodeOrder == "-0123456789"

\* a < b as Array.prototype.sort with no comparator compares: by string
RECURSIVE stringLess(_, _)
stringLess(a, b) ==
    IF b = "" THEN FALSE
    ELSE IF a = "" THEN TRUE
    ELSE LET ca == IndexIn(CharAt(a, 1), CodeOrder)
             cb == IndexIn(CharAt(b, 1), CodeOrder)
         IN  IF ca # cb THEN ca < cb ELSE stringLess(Tail(a), Tail(b))

\* Array.prototype.sort is stable: an element goes after its equals.
\* Insertion into a list of [key, val] sorted by ascending key
RECURSIVE insertByKey(_, _)
insertByKey(sorted, x) ==
    IF sorted = <<>> THEN <<x>>
    ELSE IF x.key < sorted[1].key THEN <<x>> \o sorted
    ELSE <<sorted[1]>> \o insertByKey(Tail(sorted), x)

RECURSIVE sortByKey(_)
sortByKey(seq) ==
    IF seq = <<>> THEN <<>>
    ELSE insertByKey(sortByKey(SubSeq(seq, 1, Len(seq) - 1)), seq[Len(seq)])

\* the elements of seq in the stable order of their keys keyOf(seq[i])
sortedBy(seq, keyOf(_)) ==
    LET keyed == sortByKey([i \in 1..Len(seq) |-> [key |-> keyOf(seq[i]), val |-> seq[i]]])
    IN  [i \in 1..Len(seq) |-> keyed[i].val]

\* insertion into a list of numbers sorted by their strings
RECURSIVE insertByString(_, _)
insertByString(sorted, x) ==
    IF sorted = <<>> THEN <<x>>
    ELSE IF stringLess(IntToString(x), IntToString(sorted[1])) THEN <<x>> \o sorted
    ELSE <<sorted[1]>> \o insertByString(Tail(sorted), x)

RECURSIVE sortByString(_)
sortByString(seq) ==
    IF seq = <<>> THEN <<>>
    ELSE insertByString(sortByString(SubSeq(seq, 1, Len(seq) - 1)), seq[Len(seq)])

\* .sort() of the distinct numbers: string order, undefined last
sortDefault(d) == [vals |-> sortByString(d.vals), undef |-> d.undef]

lengthOf(d) == Len(d.vals) + (IF d.undef THEN 1 ELSE 0)

\* `${d[i]}` for the i-th element (from 1) of a sorted list of distinct values
elementString(d, i) ==
    IF i <= Len(d.vals) THEN IntToString(d.vals[i]) ELSE "undefined"

\* Object.keys(MONTHS_PT).find(k => MONTHS_PT[k] === mes): is there one
hasMonthName(mes) == \E i \in 1..Len(MONTHS_PT) : MONTHS_PT[i].num = mes

findMonthName(mes) ==
    MONTHS_PT[CHOOSE i \in 1..Len(MONTHS_PT) :
                  /\ MONTHS_PT[i].num = mes
                  /\ \A j \in 1..(i - 1) : MONTHS_PT[j].num # mes].name

\* find(...) || mes, inside a template string
monthLabel(mes) == IF hasMonthName(mes) THEN findMonthName(mes) ELSE IntToString(mes)

\* the period label
periodLabel(years, months) ==
    IF lengthOf(years) = 1 /\ lengthOf(months) = 1
    THEN (IF months.undef THEN "undefined" ELSE monthLabel(months.vals[1]))
         \o "/" \o elementString(years, 1)
    ELSE IF lengthOf(years) = 1 THEN elementString(years, 1)
    ELSE elementString(years, 1) \o " a " \o elementString(years, lengthOf(years))

\* context.topN as a condition: a number other than 0
topNSet(ctx) == Has(ctx, "topN") /\ ctx.topN # 0

\* the priority with Categoria ahead of Produto
groupByCategoriaFirst(ctx) ==
    IF Len(ctx.categorias) = 0 THEN "Categoria"
    ELSE IF Len(ctx.produtos) = 0 THEN "Produto" ELSE "Regiao"

groupByOf(ctx) ==
    IF Len(ctx.produtos) = 0 THEN "Produto"
    ELSE IF Len(ctx.categorias) = 0 THEN "Categoria" ELSE "Regiao"

\* row[groupBy] || 'Outros'
groupKey(r, groupBy) ==
    IF Has(r, groupBy) /\ r[groupBy] # "" THEN r[groupBy] ELSE "Outros"

\* groups.get(key) updated with row r, the key being set first when the Map
\* does not have it: the entries of the Map stay in insertion order
RECURSIVE addToGroup(_, _, _)
addToGroup(groups, key, r) ==
    IF groups = <<>>
    THEN <<[key        |-> key,
            receita    |-> numberOr0(r, "Receita_Total"),
            quantidade |-> numberOr0(r, "Quantidade"),
            count      |-> 1]>>
    ELSE IF groups[1].key = key
    THEN <<[key        |-> key,
            receita    |-> groups[1].receita + numberOr0(r, "Receita_Total"),
            quantidade |-> groups[1].quantidade + numberOr0(r, "Quantidade"),
            count      |-> groups[1].count + 1]>> \o Tail(groups)
    ELSE <<groups[1]>> \o addToGroup(Tail(groups), key, r)

\* the Map groups after data.forEach, from row i on
RECURSIVE groupRows(_, _, _, _)
groupRows(rows, groupBy, i, groups) ==
    IF i > Len(rows) THEN groups
    ELSE groupRows(rows, groupBy, i + 1,
                   addToGroup(groups, groupKey(rows[i], groupBy), rows[i]))

\* .map(([nome, stats]) => ({...}))
groupEntry(g) ==
    [nome             |-> g.key,
     receita_total    |-> g.receita,
     quantidade_total |-> g.quantidade,
     ticket_medio     |-> Quotient(g.receita, g.count)]

\* the groups left in the insertion order of the Map
groupsInInsertionOrder(rows, groupBy) ==
    LET groups == groupRows(rows, groupBy, 1, <<>>)
    IN  [j \in 1..Len(groups) |-> groupEntry(groups[j])]

\* .sort((a, b) => b.receita_total - a.receita_total)
sortedGroups(rows, groupBy) ==
    LET groups == groupRows(rows, groupBy, 1, <<>>)
    IN  sortedBy([j \in 1..Len(groups) |-> groupEntry(groups[j])],
                 LAMBDA g : 0 - g.receita_total)

\* sorted.slice(0, n)
slice0(seq, n) == SubSeq(seq, 1, IF n < Len(seq) THEN n ELSE Len(seq))

\* byMonth.get(key) updated with row r, the key being set first when the Map
\* does not have it
RECURSIVE addToMonth(_, _, _)
addToMonth(buckets, key, r) ==
    IF buckets = <<>>
    THEN <<[key        |-> key,
            receita    |-> numberOr0(r, "Receita_Total"),
            quantidade |-> numberOr0(r, "Quantidade")]>>
    ELSE IF buckets[1].key = key
    THEN <<[key        |-> key,
            receita    |-> buckets[1].receita + numberOr0(r, "Receita_Total"),
            quantidade |-> buckets[1].quantidade + numberOr0(r, "Quantidade")]>>
         \o Tail(buckets)
    ELSE <<buckets[1]>> \o addToMonth(Tail(buckets), key, r)

\* the Map byMonth after data.forEach over rows that all have Mes, from row i on
RECURSIVE bucketRows(_, _, _)
bucketRows(rows, i, buckets) ==
    IF i > Len(rows) THEN buckets
    ELSE bucketRows(rows, i + 1, addToMonth(buckets, rows[i].Mes, rows[i]))

\* MONTHS_PT[key]: the number, or 0 for a key the table does not have
monthOfName(key) ==
    IF \E i \in 1..Len(MONTHS_PT) : MONTHS_PT[i].name = key
    THEN MONTHS_PT[CHOOSE i \in 1..Len(MONTHS_PT) : MONTHS_PT[i].name = key].num
    ELSE 0

\* MONTHS_PT[name.toLowerCase()] || parseInt(name), for a name monthLabel made
monthNumber(name) ==
    LET num == monthOfName(toLowerCase(name))
    IN  IF num # 0 THEN num ELSE parseInt(name).value

\* monthlyData: the buckets named, then sorted by month number
monthlyDataOf(rows) ==
    LET buckets == bucketRows(rows, 1, <<>>)
    IN  sortedBy([j \in 1..Len(buckets) |->
                     [mes        |-> monthLabel(buckets[j].key),
                      receita    |-> buckets[j].receita,
                      quantidade |-> buckets[j].quantidade]],
                 LAMBDA m : monthNumber(m.mes))

\* the hundredths cut off instead of rounded
toFixed2Truncated(a, b) ==
    LET n == (100 * Abs(a)) \div b
    IN  (IF a < 0 THEN "-" ELSE "")
        \o NatToString(n \div 100) \o "." \o padStart2(NatToString(n % 100))

\* x.toFixed(2) for the fraction x = a / b, b > 0: the nearest hundredth,
\* the larger one of two equally near
toFixed2(a, b) ==
    LET n == (2 * 100 * Abs(a) + b) \div (2 * b)
    IN  (IF a < 0 THEN "-" ELSE "")
        \o NatToString(n \div 100) \o "." \o padStart2(NatToString(n % 100))

\* (((last - prev) / prev) * 100).toFixed(2), in IEEE arithmetic
growthText(last, prev) ==
    IF prev = 0
    THEN (IF last = 0 THEN "NaN" ELSE IF last > 0 THEN "Infinity" ELSE "-Infinity")
    ELSE IF prev > 0 THEN toFixed2((last - prev) * 100, prev)
    ELSE toFixed2((prev - last) * 100, -prev)

variacaoOf(monthly) ==
    LET last == monthly[Len(monthly)]
        prev == monthly[Len(monthly) - 1]
    IN  [crescimento_pct  |-> growthText(last.receita, prev.receita),
         periodo_anterior |-> prev.mes,
         periodo_atual    |-> last.mes]

\* the object analyzeData starts from
emptyAnalysis(rows) ==
    [total_registros   |-> Len(rows),
     receita_total     |-> 0,
     quantidade_total  |-> 0,
     ticket_medio      |-> Quotient(0, 1),
     periodo_analizado |-> "",
     grupos            |-> <<>>]

withTotals(a, rows) ==
    LET receita == sumField(rows, "Receita_Total", 1)
    IN  [a EXCEPT !.receita_total    = receita,
                  !.quantidade_total = sumField(rows, "Quantidade", 1),
                  !.ticket_medio     = Quotient(receita, Len(rows)),
                  !.periodo_analizado =
                      periodLabel(sortDefault(distinctValues(rows, "Ano")),
                                  sortDefault(distinctValues(rows, "Mes")))]

withGroups(a, rows, ctx) ==
    IF topNSet(ctx) \/ ctx.comparison
    THEN LET sorted == sortedGroups(rows, groupByOf(ctx))
         IN  Put([a EXCEPT !.grupos = IF topNSet(ctx) THEN slice0(sorted, ctx.topN)
                                      ELSE sorted],
                 "grupo_por", groupByOf(ctx))
    ELSE a

\* the month comparison runs
comparesMonths(rows, ctx) ==
    ctx.comparison /\ lengthOf(distinctValues(rows, "Mes")) > 1

\* mes.toString() of an undefined key of byMonth
monthNameThrows(rows) == distinctValues(rows, "Mes").undef

withComparison(a, rows, ctx) ==
    IF comparesMonths(rows, ctx)
    THEN LET monthly == monthlyDataOf(rows)
         IN  Put(IF Len(monthly) >= 2
                 THEN Put(a, "variacao_mensal", variacaoOf(monthly)) ELSE a,
                 "evolucao_mensal", monthly)
    ELSE a

\* analyzeData with the empty-input return placed after the grouping
analyzeDataGroupingFirst(rows, ctx) ==
    IF Len(rows) = 0
    THEN withGroups(Put(emptyAnalysis(rows), "erro",
                        "Nenhum dado encontrado para os filtros especificados"),
                    rows, ctx)
    ELSE IF comparesMonths(rows, ctx) /\ monthNameThrows(rows) THEN TypeError
    ELSE withComparison(withGroups(withTotals(emptyAnalysis(rows), rows), rows, ctx),
                        rows, ctx)

analyzeData(rows, ctx) ==
    IF Len(rows) = 0
    THEN Put(emptyAnalysis(rows), "erro",
             "Nenhum dado encontrado para os filtros especificados")
    ELSE IF comparesMonths(rows, ctx) /\ monthNameThrows(rows) THEN TypeError
    ELSE withComparison(withGroups(withTotals(emptyAnalysis(rows), rows), rows, ctx),
                        rows, ctx)

-----------------------------------------------------------------------------
(* Inputs of the filter and of the aggregation engine *)

MaxRows == 3

\* stored rows: whole-number quantities and revenues; a row whose date did
\* not parse has no Ano and no Mes, a sheet without a column has no such field
RowPool == {
    [Ano |-> 2024, Mes |-> 1, Produto |-> "Caneta", Categoria |-> "Papelaria",
     Regiao |-> "Sul", Quantidade |-> 10, Receita_Total |-> 1000],
    [Ano |-> 2024, Mes |-> 2, Produto |-> "Lapis", Categoria |-> "Papelaria",
     Regiao |-> "Norte", Quantidade |-> 12, Receita_Total |-> 1200],
    [Ano |-> 2023, Mes |-> 12, Produto |-> "Caneta", Categoria |-> "Papelaria",
     Regiao |-> "Sul", Quantidade |-> 5, Receita_Total |-> 500],
    [Ano |-> 2024, Mes |-> 2, Produto |-> "Mochila", Categoria |-> "Bolsas",
     Regiao |-> "Sul", Quantidade |-> 0, Receita_Total |-> 0],
    [Produto |-> "Lapis", Categoria |-> "Papelaria", Regiao |-> "Norte",
     Quantidade |-> 3, Receita_Total |-> 1000],
    [Ano |-> 2024, Mes |-> 1, Produto |-> "", Receita_Total |-> 0],
    [Ano |-> 2024, Mes |-> 3, Categoria |-> "Bolsas", Regiao |-> "Norte",
     Quantidade |-> 1, Receita_Total |-> 1200] }

DataSets == UNION {[1..n -> RowPool] : n \in 0..MaxRows}

\* a QueryContext; topN: null is the record without the field topN
Context(years, months, produtos, categorias, regioes, comparison) ==
    [years |-> years, months |-> months, produtos |-> produtos,
     categorias |-> categorias, regioes |-> regioes, metrics |-> <<>>,
     comparison |-> comparison]

FilterContexts ==
    {Context(y, m, p, c, r, FALSE) :
        y \in {<<>>, <<2024>>, <<2023, 2025, 2023>>},
        m \in {<<>>, <<1>>, <<2, 12>>},
        p \in {<<>>, <<"Caneta", "Mochila">>},
        c \in {<<>>, <<"Papelaria">>},
        r \in {<<>>, <<"Sul">>}}

\* the questions parseQuery is given: up to MaxQueryWords pieces, and the
\* questions of the scenarios
MaxQueryWords == 2

QueryWords ==
    {"top", " ", "3", "0", "maior", "2023", "março", "Crescimento", "caneta",
     "x", "de 2024", "stop 5"}

RECURSIVE QueryStrings(_)
QueryStrings(n) ==
    IF n = 0 THEN {""}
    ELSE LET shorter == QueryStrings(n - 1)
         IN  shorter \cup {w \o s : w \in QueryWords, s \in shorter}

Queries ==
    QueryStrings(MaxQueryWords)
    \cup {"Quero o top 3 produtos de 2023", "vendas em março",
          "Top\t10 produtos", "os 5 melhores", "principal 007 vs 2024 e 2024",
          "qtd de Caneta em JAN/2024", "ticket médio do Sul", "120230 em 2099x"}

\* the consolidated rows the questions are asked about
KnownRows ==
    {<<>>,
     <<[Ano |-> 2024, Mes |-> 1, Produto |-> "Caneta", Categoria |-> "Papelaria",
        Regiao |-> "Sul", Quantidade |-> 10, Receita_Total |-> 1000],
       [Ano |-> 2023, Mes |-> 12, Produto |-> "Caneta", Categoria |-> "Papelaria",
        Regiao |-> "Sul", Quantidade |-> 5, Receita_Total |-> 500],
       [Ano |-> 2024, Mes |-> 1, Produto |-> "", Receita_Total |-> 0],
       [Ano |-> 2024, Mes |-> 2, Produto |-> "Top 3", Categoria |-> "Bolsas",
        Regiao |-> "Norte", Quantidade |-> 1, Receita_Total |-> 1200]>>}

\* the values of topN parseQuery returns for "top 0", "top 1" and "top 2"
TopNs == {parseQuery("top " \o n, <<>>).topN : n \in {"0", "1", "2"}}

AnalysisContexts ==
    LET base == {Context(<<>>, <<>>, p, c, <<>>, cmp) :
                    p \in {<<>>, <<"Caneta">>},
                    c \in {<<>>, <<"Papelaria">>},
                    cmp \in BOOLEAN}
    IN  base \cup {Put(ctx, "topN", n) : ctx \in base, n \in TopNs}

-----------------------------------------------------------------------------
(* The state machine: each function is called on an input and returns *)

IdleHeader == header = null /\ standard = null
IdleDate   == dateStr = null /\ parsed = null
IdleRow    == headerMap = null /\ row = null /\ normalized = null
IdleSync   == drive = null /\ results = null /\ stored = null
IdlePage   ==
    /\ messages = null /\ input = null /\ isLoading = null /\ session = null
    /\ streams = null
IdleServe  ==
    /\ req = null /\ store = null /\ spreadsheets = null /\ fetched = null
    /\ response = null /\ calls = <<>> /\ user = null
    /\ IdleSync /\ IdlePage
IdleQuery  ==
    /\ data = null /\ context = null /\ filtered = null /\ analysis = null
    /\ query = null /\ IdleServe

InitHeader ==
    /\ pc = "normalizeHeader"
    /\ header \in Headers
    /\ standard = null
    /\ IdleDate /\ IdleRow /\ IdleQuery

InitDate ==
    /\ pc = "parseDate"
    /\ dateStr \in DateStrings
    /\ parsed = null
    /\ IdleHeader /\ IdleRow /\ IdleQuery

InitRow ==
    /\ pc = "normalizeRow"
    /\ \E stds \in HeaderMaps :
          /\ headerMap = Entries(stds)
          /\ row \in RowsOf(stds)
    /\ normalized = null
    /\ IdleHeader /\ IdleDate /\ IdleQuery

\* normalizeRow is given a row it returned, under the identity header map
InitRenormalize ==
    /\ pc = "normalizeRow"
    /\ row \in NormalizedRows(HeaderMaps)
    /\ headerMap = IdentityMap(row)
    /\ normalized = null
    /\ IdleHeader /\ IdleDate /\ IdleQuery

\* parseQuery is given a question and the consolidated rows
InitParse ==
    /\ pc = "parseQuery"
    /\ query \in Queries
    /\ data \in KnownRows
    /\ context = null /\ filtered = null /\ analysis = null
    /\ IdleHeader /\ IdleDate /\ IdleRow /\ IdleServe

InitFilter ==
    /\ pc = "filterData"
    /\ data \in DataSets
    /\ context \in FilterContexts
    /\ filtered = null /\ analysis = null /\ query = null
    /\ IdleHeader /\ IdleDate /\ IdleRow /\ IdleServe

InitAnalyze ==
    /\ pc = "analyzeData"
    /\ data \in DataSets
    /\ context \in AnalysisContexts
    /\ filtered = null /\ analysis = null /\ query = null
    /\ IdleHeader /\ IdleDate /\ IdleRow /\ IdleServe

NormalizeHeader ==
    /\ pc = "normalizeHeader"
    /\ standard' = normalizeHeader(header)
    /\ pc' = "normalizeHeader.return"
    /\ UNCHANGED <<header, dateStr, parsed, headerMap, row, normalized,
                   data, context, filtered, analysis, query, serveVars,
                   syncVars, pageVars>>

ParseDate ==
    /\ pc = "parseDate"
    /\ parsed' = parseDate(dateStr)
    /\ pc' = "parseDate.return"
    /\ UNCHANGED <<header, standard, dateStr, headerMap, row, normalized,
                   data, context, filtered, analysis, query, serveVars,
                   syncVars, pageVars>>

NormalizeRow ==
    /\ pc = "normalizeRow"
    /\ normalized' = normalizeRow(row, headerMap)
    /\ pc' = "normalizeRow.return"
    /\ UNCHANGED <<header, standard, dateStr, parsed, headerMap, row,
                   data, context, filtered, analysis, query, serveVars,
                   syncVars, pageVars>>

ParseQuery ==
    /\ pc = "parseQuery"
    /\ context' = parseQuery(query, data)
    /\ pc' = "parseQuery.return"
    /\ UNCHANGED <<header, standard, dateStr, parsed, headerMap, row, normalized,
                   data, filtered, analysis, query, serveVars,
                   syncVars, pageVars>>

FilterData ==
    /\ pc = "filterData"
    /\ filtered' = filterData(data, context)
    /\ pc' = "filterData.return"
    /\ UNCHANGED <<header, standard, dateStr, parsed, headerMap, row, normalized,
                   data, context, analysis, query, serveVars,
                   syncVars, pageVars>>

AnalyzeData ==
    /\ pc = "analyzeData"
    /\ analysis' = analyzeData(data, context)
    /\ pc' = "analyzeData.return"
    /\ UNCHANGED <<header, standard, dateStr, parsed, headerMap, row, normalized,
                   data, context, filtered, query, serveVars,
                   syncVars, pageVars>>

-----------------------------------------------------------------------------
(* The chat handler: one request from its arrival to its response *)

\* new Response(JSON.stringify({ error }), { status, 'application/json' })
JsonError(status, error) ==
    [status |-> status, contentType |-> "application/json", error |-> error,
     upstream |-> 0]

\* the JSON error the handler answers a gateway reply of status upstream with
UpstreamError(status, error, upstream) ==
    [JsonError(status, error) EXCEPT !.upstream = upstream]

\* new Response(response.body, { 'text/event-stream' }): status 200, the body
\* being that of the upstream reply of status upstream
Stream(upstream) ==
    [status |-> 200, contentType |-> "text/event-stream", error |-> "",
     upstream |-> upstream]

\* the catch block
Caught == JsonError(500, "Erro ao processar mensagem")

\* allData.push(...(sheet.rows || [])) over the sheets from sheet i on
RECURSIVE consolidate(_, _)
consolidate(sheets, i) ==
    IF i > Len(sheets) THEN <<>>
    ELSE (IF Has(sheets[i], "rows") THEN sheets[i].rows ELSE <<>>)
         \o consolidate(sheets, i + 1)

\* filteredData.length === 0 && (context.years.length > 0 || context.months.length > 0)
periodNotFoundYearsOnly(f, ctx) == Len(f) = 0 /\ Len(ctx.years) > 0

periodNotFound(f, ctx) ==
    Len(f) = 0 /\ (Len(ctx.years) > 0 \/ Len(ctx.months) > 0)

\* `${monthName}/${r.Ano}` of the rows that have Ano and Mes, each once, from
\* row i on
RECURSIVE periodsFrom(_, _, _)
periodsFrom(allData, i, seen) ==
    IF i > Len(allData) THEN seen
    ELSE LET r == allData[i]
             label == monthLabel(r.Mes) \o "/" \o IntToString(r.Ano)
         IN  periodsFrom(allData, i + 1,
                 IF /\ Has(r, "Ano") /\ r.Ano # 0 /\ Has(r, "Mes") /\ r.Mes # 0
                    /\ \A j \in 1..Len(seen) : seen[j] # label
                 THEN Append(seen, label) ELSE seen)

\* array.join(', ')
RECURSIVE join(_)
join(seq) ==
    IF seq = <<>> THEN ""
    ELSE IF Len(seq) = 1 THEN seq[1]
    ELSE seq[1] \o ", " \o join(Tail(seq))

availablePeriods(allData) == join(periodsFrom(allData, 1, <<>>))

scopeDesc(f, allData, sheets) ==
    IF Len(f) < Len(allData)
    THEN "Análise filtrada (" \o IntToString(Len(f)) \o " de "
         \o IntToString(Len(allData)) \o " registros)"
    ELSE "Análise completa (" \o IntToString(Len(allData)) \o " registros de "
         \o IntToString(Len(sheets)) \o " planilha(s))"

\* the call to the model gateway: the branch that makes it, whether
\* LOVABLE_API_KEY was set, and what the system prompt is built from
Fetch(branch, key, periods, scope) ==
    [branch |-> branch, key |-> key, periods |-> periods, scope |-> scope]

\* the statuses the gateway answers with; NetworkError: fetch rejects
UpstreamStatuses == {200, 401, 402, 429, 500}
NetworkError == 0

\* the questions asked and the tables they are asked about
ChatQueries ==
    {"vendas em março", "Quero o top 3 produtos de 2023", "top 0 produtos",
     "crescimento das vendas", "vendas de caneta no norte", "resumo"}

Stores ==
    {<<>>,
     <<[file_name |-> "jan.csv",
        rows |-> <<[Ano |-> 2024, Mes |-> 1, Produto |-> "Caneta",
                    Categoria |-> "Papelaria", Regiao |-> "Sul",
                    Quantidade |-> 10, Receita_Total |-> 1000],
                   [Ano |-> 2024, Mes |-> 1, Produto |-> "", Receita_Total |-> 0]>>]>>,
     <<[file_name |-> "b.csv",
        rows |-> <<[Ano |-> 2023, Mes |-> 12, Produto |-> "Caneta",
                    Categoria |-> "Papelaria", Regiao |-> "Sul",
                    Quantidade |-> 5, Receita_Total |-> 500],
                   [Produto |-> "Lapis", Categoria |-> "Papelaria",
                    Regiao |-> "Norte", Quantidade |-> 3, Receita_Total |-> 1000]>>],
       [file_name |-> "a.csv",
        rows |-> <<[Ano |-> 2024, Mes |-> 2, Produto |-> "Lapis",
                    Categoria |-> "Papelaria", Regiao |-> "Norte",
                    Quantidade |-> 12, Receita_Total |-> 1200]>>]>>,
     <<[file_name |-> "vazia.csv"]>>}

\* the users of the application, and what the spreadsheets table holds for
\* each: row.user_id is the key
Users == {"ana", "bia"}

Tables ==
    {[u \in Users |->
        IF u = "ana" THEN sheets
        ELSE <<[file_name |-> "bia.csv",
                rows |-> <<[Ano |-> 2024, Mes |-> 3, Produto |-> "Borracha",
                            Categoria |-> "Papelaria", Regiao |-> "Norte",
                            Quantidade |-> 2, Receita_Total |-> 300]>>]>>] :
     sheets \in Stores}

Requests ==
    [method : {"OPTIONS", "POST"}, authorization : BOOLEAN, json : BOOLEAN,
     messages : {<<>>} \cup {<<q>> : q \in ChatQueries}]

InitServe ==
    /\ pc = "serve"
    /\ req \in Requests
    /\ store \in Tables
    /\ spreadsheets = null /\ fetched = null /\ response = null /\ calls = <<>>
    /\ user = null /\ IdleSync /\ IdlePage
    /\ data = null /\ context = null /\ filtered = null /\ analysis = null
    /\ query = null
    /\ IdleHeader /\ IdleDate /\ IdleRow

\* the handler returns
Return(r) == response' = r /\ pc' = "serve.return"

\* req.method === 'OPTIONS'
ServeOptions ==
    /\ pc = "serve"
    /\ req.method = "OPTIONS"
    /\ Return([status |-> 200, contentType |-> "", error |-> "", upstream |-> 0])
    /\ UNCHANGED <<header, standard, dateStr, parsed, headerMap, row, normalized,
                   data, context, filtered, analysis, query,
                   user, req, store, spreadsheets, fetched, calls,
                   syncVars, pageVars>>

\* no Authorization header
ServeUnauthorized ==
    /\ pc = "serve"
    /\ req.method # "OPTIONS"
    /\ ~req.authorization
    /\ Return(JsonError(401, "Não autorizado"))
    /\ UNCHANGED <<header, standard, dateStr, parsed, headerMap, row, normalized,
                   data, context, filtered, analysis, query,
                   user, req, store, spreadsheets, fetched, calls,
                   syncVars, pageVars>>

\* await req.json() and messages[messages.length - 1].content: either throws
\* into the catch block
ServeReadBody ==
    /\ pc = "serve"
    /\ req.method # "OPTIONS"
    /\ req.authorization
    /\ IF req.json /\ Len(req.messages) > 0
       THEN /\ query' = req.messages[Len(req.messages)]
            /\ pc' = "serve.getUser"
            /\ UNCHANGED response
       ELSE /\ Return(Caught)
            /\ UNCHANGED query
    /\ UNCHANGED <<header, standard, dateStr, parsed, headerMap, row, normalized,
                   data, context, filtered, analysis,
                   user, req, store, spreadsheets, fetched, calls,
                   syncVars, pageVars>>

\* what auth.getUser resolves to: { data: { user }, error }
GetUserResults ==
    {[user |-> [id |-> u]] : u \in Users} \cup {[error |-> "invalid JWT"]}

\* await supabase.auth.getUser(token)
ServeGetUser ==
    /\ pc = "serve.getUser"
    /\ calls' = Append(calls, "auth.getUser")
    /\ \E verified \in GetUserResults :
          IF Has(verified, "user")
          THEN user' = verified.user /\ pc' = "serve.select" /\ UNCHANGED response
          ELSE UNCHANGED user /\ Return(JsonError(401, "Não autorizado"))
    /\ UNCHANGED <<header, standard, dateStr, parsed, headerMap, row, normalized,
                   data, context, filtered, analysis, query,
                   req, store, spreadsheets, fetched,
                   syncVars, pageVars>>

\* select('file_name, rows').eq('user_id', id)
selectAll(table, id) ==
    LET RECURSIVE all(_)
        all(us) == IF us = {} THEN <<>>
                   ELSE LET u == CHOOSE x \in us : TRUE
                        IN  table[u] \o all(us \ {u})
    IN  all(DOMAIN table)

selectEq(table, id) == table[id]

\* await supabase.from('spreadsheets').select(...).eq('user_id', user.id)
ServeSelect ==
    /\ pc = "serve.select"
    /\ calls' = Append(calls, "db.select")
    /\ \E dbError \in BOOLEAN :
          IF dbError
          THEN Return(JsonError(500, "Erro ao buscar dados")) /\ UNCHANGED spreadsheets
          ELSE /\ spreadsheets' = selectEq(store, user.id)
               /\ pc' = "serve.spreadsheets"
               /\ UNCHANGED response
    /\ UNCHANGED <<header, standard, dateStr, parsed, headerMap, row, normalized,
                   data, context, filtered, analysis, query,
                   user, req, store, fetched,
                   syncVars, pageVars>>

\* !spreadsheets || spreadsheets.length === 0: the model is asked to say that
\* no spreadsheet was sent
ServeNoSpreadsheets ==
    /\ pc = "serve.spreadsheets"
    /\ Len(spreadsheets) = 0
    /\ \E key \in BOOLEAN :
          IF key
          THEN /\ fetched' = Fetch("noSpreadsheets", key, "", "")
               /\ calls' = Append(calls, "model.fetch")
               /\ pc' = "serve.fetch"
               /\ UNCHANGED response
          ELSE /\ Return(Caught)
               /\ UNCHANGED <<fetched, calls>>
    /\ UNCHANGED <<header, standard, dateStr, parsed, headerMap, row, normalized,
                   data, context, filtered, analysis, query,
                   user, req, store, spreadsheets,
                   syncVars, pageVars>>

\* spreadsheets.forEach(sheet => allData.push(...(sheet.rows || [])))
ServeConsolidate ==
    /\ pc = "serve.spreadsheets"
    /\ Len(spreadsheets) > 0
    /\ data' = consolidate(spreadsheets, 1)
    /\ pc' = "serve.parseQuery"
    /\ UNCHANGED <<header, standard, dateStr, parsed, headerMap, row, normalized,
                   context, filtered, analysis, query, serveVars,
                   syncVars, pageVars>>

ServeParseQuery ==
    /\ pc = "serve.parseQuery"
    /\ context' = parseQuery(query, data)
    /\ calls' = Append(calls, "parseQuery")
    /\ pc' = "serve.filterData"
    /\ UNCHANGED <<header, standard, dateStr, parsed, headerMap, row, normalized,
                   data, filtered, analysis, query,
                   user, req, store, spreadsheets, fetched, response,
                   syncVars, pageVars>>

ServeFilterData ==
    /\ pc = "serve.filterData"
    /\ filtered' = filterData(data, context)
    /\ calls' = Append(calls, "filterData")
    /\ pc' = "serve.filtered"
    /\ UNCHANGED <<header, standard, dateStr, parsed, headerMap, row, normalized,
                   data, context, analysis, query,
                   user, req, store, spreadsheets, fetched, response,
                   syncVars, pageVars>>

\* no row left and a period asked for: the model is asked to say so and to
\* list the periods there are; LOVABLE_API_KEY is not checked here
ServePeriodNotFound ==
    /\ pc = "serve.filtered"
    /\ periodNotFound(filtered, context)
    /\ \E key \in BOOLEAN :
          fetched' = Fetch("periodNotFound", key, availablePeriods(data), "")
    /\ calls' = Append(calls, "model.fetch")
    /\ pc' = "serve.fetch"
    /\ UNCHANGED <<header, standard, dateStr, parsed, headerMap, row, normalized,
                   data, context, filtered, analysis, query,
                   user, req, store, spreadsheets, response,
                   syncVars, pageVars>>

\* analyzeData(filteredData.length > 0 ? filteredData : allData, context); an
\* exception goes to the catch block
ServeAnalyzeData ==
    /\ pc = "serve.filtered"
    /\ ~periodNotFound(filtered, context)
    /\ analysis' = analyzeData(IF Len(filtered) > 0 THEN filtered ELSE data, context)
    /\ calls' = Append(calls, "analyzeData")
    /\ IF analysis' = TypeError
       THEN Return(Caught)
       ELSE pc' = "serve.analyzed" /\ UNCHANGED response
    /\ UNCHANGED <<header, standard, dateStr, parsed, headerMap, row, normalized,
                   data, context, filtered, query,
                   user, req, store, spreadsheets, fetched,
                   syncVars, pageVars>>

\* the scope description, the check of LOVABLE_API_KEY and the call that asks
\* the model to narrate the analysis
ServeNarrate ==
    /\ pc = "serve.analyzed"
    /\ \E key \in BOOLEAN :
          IF key
          THEN /\ fetched' = Fetch("analysis", key, "",
                                   scopeDesc(filtered, data, spreadsheets))
               /\ calls' = Append(calls, "model.fetch")
               /\ pc' = "serve.fetch"
               /\ UNCHANGED response
          ELSE /\ Return(Caught)
               /\ UNCHANGED <<fetched, calls>>
    /\ UNCHANGED <<header, standard, dateStr, parsed, headerMap, row, normalized,
                   data, context, filtered, analysis, query,
                   user, req, store, spreadsheets,
                   syncVars, pageVars>>

\* the gateway answers a call of the two early branches: its body is streamed
\* back whatever its status
ServeStream ==
    /\ pc = "serve.fetch"
    /\ fetched.branch \in {"noSpreadsheets", "periodNotFound"}
    /\ \E status \in UpstreamStatuses \cup {NetworkError} :
          Return(IF status = NetworkError THEN Caught ELSE Stream(status))
    /\ UNCHANGED <<header, standard, dateStr, parsed, headerMap, row, normalized,
                   data, context, filtered, analysis, query,
                   user, req, store, spreadsheets, fetched, calls,
                   syncVars, pageVars>>

\* the narration call made again when the gateway answers 429
ServeReplyRetrying ==
    /\ pc = "serve.fetch"
    /\ fetched.branch = "analysis"
    /\ \E status \in UpstreamStatuses \cup {NetworkError} :
          IF status = 429
          THEN /\ calls' = Append(calls, "model.fetch")
               /\ UNCHANGED <<pc, response>>
          ELSE /\ Return(IF status = NetworkError THEN Caught
                         ELSE IF status = 200 THEN Stream(status)
                         ELSE IF status = 402
                              THEN UpstreamError(402, "Créditos insuficientes.", status)
                         ELSE UpstreamError(500, "Erro ao processar análise", status))
               /\ UNCHANGED calls
    /\ UNCHANGED <<header, standard, dateStr, parsed, headerMap, row, normalized,
                   data, context, filtered, analysis, query,
                   user, req, store, spreadsheets, fetched,
                   syncVars, pageVars>>

\* the gateway answers the narration call: !response.ok is mapped to a JSON
\* error
ServeReply ==
    /\ pc = "serve.fetch"
    /\ fetched.branch = "analysis"
    /\ \E status \in UpstreamStatuses \cup {NetworkError} :
          Return(IF status = NetworkError THEN Caught
                 ELSE IF status = 200 THEN Stream(status)
                 ELSE IF status = 429
                      THEN UpstreamError(429, "Limite de requisições excedido.", status)
                 ELSE IF status = 402
                      THEN UpstreamError(402, "Créditos insuficientes.", status)
                 ELSE UpstreamError(500, "Erro ao processar análise", status))
    /\ UNCHANGED <<header, standard, dateStr, parsed, headerMap, row, normalized,
                   data, context, filtered, analysis, query,
                   user, req, store, spreadsheets, fetched, calls,
                   syncVars, pageVars>>

Serve ==
    \/ ServeOptions
    \/ ServeUnauthorized
    \/ ServeReadBody
    \/ ServeGetUser
    \/ ServeSelect
    \/ ServeNoSpreadsheets
    \/ ServeConsolidate
    \/ ServeParseQuery
    \/ ServeFilterData
    \/ ServePeriodNotFound
    \/ ServeAnalyzeData
    \/ ServeNarrate
    \/ ServeStream
    \/ ServeReply

SpecChat    == InitServe /\ [][Serve]_vars

-----------------------------------------------------------------------------
(* The sync handler: one request of sync-google-drive *)

\* GOOGLE_SERVICE_ACCOUNT_JSON and GOOGLE_DRIVE_FOLDER_ID as the handler
\* finds them
Environments == {"configured", "missing", "invalidJson", "invalidKey"}

\* the n-th file of the Drive folder
DriveFile(n) ==
    [name |-> "vendas" \o NatToString(n) \o ".csv",
     rows |-> <<[Ano |-> 2024, Mes |-> n, Produto |-> "Lapis",
                 Receita_Total |-> 40 * n]>>]

MaxFiles == 2

Drives ==
    [env : Environments,
     files : {[n \in 1..len |-> DriveFile(n)] : len \in 0..MaxFiles}]

SyncRequests == [method : {"OPTIONS", "POST"}, authorization : BOOLEAN]

InitSync ==
    /\ pc = "sync"
    /\ req \in SyncRequests
    /\ store \in Tables
    /\ stored = store
    /\ drive \in Drives
    /\ results = <<>>
    /\ user = null /\ response = null /\ calls = <<>>
    /\ spreadsheets = null /\ fetched = null
    /\ data = null /\ context = null /\ filtered = null /\ analysis = null
    /\ query = null
    /\ IdleHeader /\ IdleDate /\ IdleRow /\ IdlePage

\* the catch block: status 500 with the message of the error
SyncError(message) == JsonError(500, message)

SyncReturnWith(r) == response' = r /\ pc' = "sync.return"

\* req.method === 'OPTIONS'
SyncOptions ==
    /\ pc = "sync"
    /\ req.method = "OPTIONS"
    /\ SyncReturnWith([status |-> 200, contentType |-> "", error |-> "",
                       upstream |-> 0])
    /\ UNCHANGED <<coreVars, req, store, spreadsheets, fetched, calls, user,
                   syncVars, pageVars>>

\* no Authorization header: throw new Error('No authorization header')
SyncNoHeader ==
    /\ pc = "sync"
    /\ req.method # "OPTIONS"
    /\ ~req.authorization
    /\ SyncReturnWith(SyncError("No authorization header"))
    /\ UNCHANGED <<coreVars, req, store, spreadsheets, fetched, calls, user,
                   syncVars, pageVars>>

\* await supabaseClient.auth.getUser()
SyncGetUser ==
    /\ pc = "sync"
    /\ req.method # "OPTIONS"
    /\ req.authorization
    /\ calls' = Append(calls, "auth.getUser")
    /\ \E verified \in GetUserResults :
          IF Has(verified, "user")
          THEN user' = verified.user /\ pc' = "sync.delete" /\ UNCHANGED response
          ELSE UNCHANGED user /\ SyncReturnWith(SyncError("Unauthorized"))
    /\ UNCHANGED <<coreVars, req, store, spreadsheets, fetched,
                   syncVars, pageVars>>

\* .from('spreadsheets').delete().eq('user_id', id)
deleteEq(table, id) == [table EXCEPT ![id] = <<>>]

\* the spreadsheets of the user are deleted; a deleteError is logged only
SyncDelete ==
    /\ pc = "sync.delete"
    /\ calls' = Append(calls, "db.delete")
    /\ \E deleteError \in BOOLEAN :
          store' = IF deleteError THEN store ELSE deleteEq(store, user.id)
    /\ pc' = "sync.credentials"
    /\ UNCHANGED <<coreVars, req, spreadsheets, fetched, response, user,
                   syncVars, pageVars>>

\* the two secrets are read and the service account is parsed
SyncCredentials ==
    /\ pc = "sync.credentials"
    /\ IF drive.env = "missing"
       THEN SyncReturnWith(SyncError("Google Drive credentials not configured"))
       ELSE IF drive.env = "invalidJson"
       THEN SyncReturnWith(SyncError("Invalid Google Service Account JSON format. Please verify the secret contains valid JSON."))
       ELSE pc' = "sync.sign" /\ UNCHANGED response
    /\ UNCHANGED <<coreVars, req, store, spreadsheets, fetched, calls, user,
                   syncVars, pageVars>>

\* the JWT is signed: crypto.subtle.importKey rejects a key that is no PKCS8
SyncSign ==
    /\ pc = "sync.sign"
    /\ IF drive.env = "invalidKey"
       THEN SyncReturnWith(SyncError("DataError"))
       ELSE pc' = "sync.token" /\ UNCHANGED response
    /\ UNCHANGED <<coreVars, req, store, spreadsheets, fetched, calls, user,
                   syncVars, pageVars>>

\* the JWT is exchanged for an access token
SyncToken ==
    /\ pc = "sync.token"
    /\ calls' = Append(calls, "google.token")
    /\ \E ok \in BOOLEAN :
          IF ok THEN pc' = "sync.list" /\ UNCHANGED response
          ELSE SyncReturnWith(SyncError("Failed to get access token"))
    /\ UNCHANGED <<coreVars, req, store, spreadsheets, fetched, user,
                   syncVars, pageVars>>

\* the files of the folder are listed
SyncList ==
    /\ pc = "sync.list"
    /\ calls' = Append(calls, "google.files")
    /\ \E ok \in BOOLEAN :
          IF ok THEN pc' = "sync.files" /\ UNCHANGED response
          ELSE SyncReturnWith(SyncError("Failed to list files"))
    /\ UNCHANGED <<coreVars, req, store, spreadsheets, fetched, user,
                   syncVars, pageVars>>

\* parse-spreadsheet: .from('spreadsheets').insert({ user_id, file_name, rows })
insertFor(table, id, file) ==
    [table EXCEPT ![id] = Append(@, [file_name |-> file.name, rows |-> file.rows])]

\* one turn of the loop over the files: the file is downloaded and sent to
\* parse-spreadsheet, which stores it; a failed download or parse is skipped,
\* an exception is recorded
SyncFile ==
    /\ pc = "sync.files"
    /\ drive.files # <<>>
    /\ LET file == Head(drive.files)
       IN  \E outcome \in {"downloadFailed", "parseFailed", "parsed", "threw"} :
              /\ store' = IF outcome = "parsed"
                          THEN insertFor(store, user.id, file) ELSE store
              /\ results' =
                    IF outcome = "parsed"
                    THEN Append(results, [fileName |-> file.name, success |-> TRUE])
                    ELSE IF outcome = "threw"
                    THEN Append(results, [fileName |-> file.name, success |-> FALSE])
                    ELSE results
    /\ drive' = [drive EXCEPT !.files = Tail(@)]
    /\ UNCHANGED <<coreVars, pc, req, spreadsheets, fetched, response, calls,
                   user, stored, pageVars>>

\* { success: true, processed: results.length, results }
SyncDone ==
    /\ pc = "sync.files"
    /\ drive.files = <<>>
    /\ SyncReturnWith([status |-> 200, contentType |-> "application/json",
                       error |-> "", upstream |-> 0,
                       processed |-> Len(results)])
    /\ UNCHANGED <<coreVars, req, store, spreadsheets, fetched, calls, user,
                   syncVars, pageVars>>

Sync ==
    \/ SyncOptions
    \/ SyncNoHeader
    \/ SyncGetUser
    \/ SyncDelete
    \/ SyncCredentials
    \/ SyncSign
    \/ SyncToken
    \/ SyncList
    \/ SyncFile
    \/ SyncDone

SpecSync    == InitSync /\ [][Sync]_vars

-----------------------------------------------------------------------------
(* The chat page: the calls of handleSend and their streams *)

\* the message the page starts with
Greeting ==
    [role |-> "assistant",
     content |-> "Olá! Sou o Alphabot IA. Envie uma planilha de vendas e eu farei a análise para você."]

\* how many questions are sent, and into how many deltas a reply is cut
MaxSends == 2
MaxDeltas == 2

\* what the user types
Inputs == {"", "  ", "vendas", "top 3"}

\* delta k of the reply to the n-th question
Delta(n, k) == "<" \o NatToString(n) \o "." \o NatToString(k) \o ">"

\* the content deltas of the reply to the n-th question
Bodies(n) ==
    {[k \in 1..len |-> Delta(n, k)] : len \in 0..MaxDeltas}

InitPage ==
    /\ pc = "page"
    /\ messages = <<Greeting>>
    /\ input = ""
    /\ isLoading = FALSE
    /\ session \in BOOLEAN
    /\ streams = <<>>
    /\ data = null /\ context = null /\ filtered = null /\ analysis = null
    /\ query = null
    /\ IdleHeader /\ IdleDate /\ IdleRow
    /\ req = null /\ store = null /\ spreadsheets = null /\ fetched = null
    /\ response = null /\ calls = <<>> /\ user = null /\ IdleSync

\* onChange: setInput(e.target.value)
SetInput ==
    /\ pc = "page"
    /\ \E value \in Inputs : value # input /\ input' = value
    /\ UNCHANGED <<coreVars, pc, serveVars, syncVars,
                   messages, isLoading, session, streams>>

\* the updater of setMessages with the content accumulated so far
withAssistantContent(prev, assistantContent) ==
    IF Len(prev) > 0 /\ prev[Len(prev)].role = "assistant"
    THEN [prev EXCEPT ![Len(prev)].content = assistantContent]
    ELSE Append(prev, [role |-> "assistant", content |-> assistantContent])

\* handleSend up to its await fetch: started by Enter in the input, or by the
\* button, which is disabled while isLoading
HandleSend ==
    /\ pc = "page"
    /\ Len(streams) < MaxSends
    /\ \E by \in {"Enter", "Button"} : by = "Button" => ~isLoading
    /\ trim(input) # "" /\ session
    /\ messages' = Append(messages, [role |-> "user", content |-> input])
    /\ input' = ""
    /\ isLoading' = TRUE
    /\ streams' = Append(streams, [at |-> "fetch", body |-> <<>>, read |-> 0,
                                   assistantContent |-> ""])
    /\ UNCHANGED <<coreVars, pc, serveVars, syncVars, session>>

\* await fetch(CHAT_URL) of call n resolves: !response.ok goes to the catch
\* block and the finally block
FetchResolves(n) ==
    /\ pc = "page"
    /\ streams[n].at = "fetch"
    /\ \/ /\ \E body \in Bodies(n) :
                streams' = [streams EXCEPT ![n].at = "read", ![n].body = body]
          /\ UNCHANGED isLoading
       \/ /\ streams' = [streams EXCEPT ![n].at = "done"]
          /\ isLoading' = FALSE
    /\ UNCHANGED <<coreVars, pc, serveVars, syncVars, messages, input, session>>

\* call n reads a data line with a content delta
ReadDelta(n) ==
    /\ pc = "page"
    /\ streams[n].at = "read"
    /\ streams[n].read < Len(streams[n].body)
    /\ LET assistantContent ==
              streams[n].assistantContent \o streams[n].body[streams[n].read + 1]
       IN  /\ streams' = [streams EXCEPT ![n].read = @ + 1,
                                         ![n].assistantContent = assistantContent]
           /\ messages' = withAssistantContent(messages, assistantContent)
    /\ UNCHANGED <<coreVars, pc, serveVars, syncVars, input, isLoading, session>>

\* call n reads [DONE] or the end of the body: finally setIsLoading(false)
StreamEnds(n) ==
    /\ pc = "page"
    /\ streams[n].at = "read"
    /\ streams[n].read = Len(streams[n].body)
    /\ streams' = [streams EXCEPT ![n].at = "done"]
    /\ isLoading' = FALSE
    /\ UNCHANGED <<coreVars, pc, serveVars, syncVars, messages, input, session>>

\* the calls of handleSend made so far
Sends == IF pc = "page" THEN 1..Len(streams) ELSE {}

Page ==
    \/ SetInput
    \/ HandleSend
    \/ \E n \in Sends : FetchResolves(n)
    \/ \E n \in Sends : ReadDelta(n)
    \/ \E n \in Sends : StreamEnds(n)

SpecPage    == InitPage /\ [][Page]_vars

SpecHeader  == InitHeader /\ [][NormalizeHeader]_vars
SpecDate    == InitDate /\ [][ParseDate]_vars
SpecRow     == InitRow /\ [][NormalizeRow]_vars
SpecRenormalize == InitRenormalize /\ [][NormalizeRow]_vars
SpecParse   == InitParse /\ [][ParseQuery]_vars
SpecFilter  == InitFilter /\ [][FilterData]_vars
SpecAnalyze == InitAnalyze /\ [][AnalyzeData]_vars

Init ==
    \/ InitHeader \/ InitDate \/ InitRow \/ InitRenormalize
    \/ InitParse \/ InitFilter \/ InitAnalyze \/ InitServe
    \/ InitSync \/ InitPage

Next ==
    \/ NormalizeHeader
    \/ ParseDate
    \/ NormalizeRow
    \/ ParseQuery
    \/ FilterData
    \/ AnalyzeData
    \/ Serve
    \/ Sync
    \/ Page

Spec == Init /\ [][Next]_vars

-----------------------------------------------------------------------------
(* Properties *)

Returned(f) == pc = f \o ".return"

\* the elements of a sequence
Range(seq) == {seq[i] : i \in 1..Len(seq)}

\* the five dimensions of a QueryContext and the row field each constrains
Dimensions ==
    {[set |-> "years", field |-> "Ano"], [set |-> "months", field |-> "Mes"],
     [set |-> "produtos", field |-> "Produto"],
     [set |-> "categorias", field |-> "Categoria"],
     [set |-> "regioes", field |-> "Regiao"]}

\* the row's field is a member of every non-empty set of the context
MatchesContext(r, ctx) ==
    \A d \in Dimensions :
        ctx[d.set] # <<>> => Has(r, d.field) /\ r[d.field] \in Range(ctx[d.set])

\* C1: filterData keeps a row if and only if, for each of the five context
\* dimensions whose set is non-empty, the row's field is a member of the set;
\* with all five sets empty the output equals the input.
C1_FilterKeepsMatchingRows ==
    Returned("filterData") =>
        /\ Range(filtered) \subseteq Range(data)
        /\ \A r \in Range(data) : r \in Range(filtered) <=> MatchesContext(r, context)
        /\ (\A d \in Dimensions : context[d.set] = <<>>) => filtered = data

\* a call that kept a row and dropped a row, under a context with both a
\* constraining and an open dimension
C1_Witness ==
    /\ Returned("filterData")
    /\ filtered # <<>> /\ Len(filtered) < Len(data)
    /\ context.regioes # <<>> /\ context.years = <<>>

\* C2: analyzeData never raises: for rows that may lack any optional field and
\* for every context it returns an AnalysisResult.
C2_AnalyzeNeverRaises ==
    Returned("analyzeData") => analysis # TypeError

\* <<Ano, Mes>> pairs in chronological order
Earlier(p, q) == p[1] < q[1] \/ (p[1] = q[1] /\ p[2] < q[2])

Periods(rows) == {<<rows[i].Ano, rows[i].Mes>> : i \in 1..Len(rows)}

Latest(periods) == CHOOSE p \in periods : \A q \in periods \ {p} : Earlier(q, p)

\* C3: when month-over-month growth is computed, periodo_atual is the latest
\* month present in the data in chronological order and periodo_anterior the
\* one before it, also when the rows span more than one year.
C3_GrowthComparesLatestMonths ==
    ( /\ Returned("analyzeData")
      /\ analysis # TypeError
      /\ Has(analysis, "variacao_mensal")
      /\ \A i \in 1..Len(data) : Has(data[i], "Ano") /\ Has(data[i], "Mes") )
    => LET last == Latest(Periods(data))
           prev == Latest(Periods(data) \ {last})
       IN  /\ analysis.variacao_mensal.periodo_atual = monthLabel(last[2])
           /\ analysis.variacao_mensal.periodo_anterior = monthLabel(prev[2])

\* C4: the growth percentage is never the result of an unguarded division by
\* zero: crescimento_pct is never a non-finite value.
C4_GrowthIsFinite ==
    ( /\ Returned("analyzeData")
      /\ analysis # TypeError
      /\ Has(analysis, "variacao_mensal") )
    => analysis.variacao_mensal.crescimento_pct \notin {"Infinity", "-Infinity", "NaN"}

\* the canonical fields in table order, as the claim lists them
CanonicalOrder ==
    <<"Data", "ID_Transacao", "Produto", "Categoria", "Regiao", "Quantidade",
      "Preco_Unitario", "Receita_Total">>

\* the positions in the table of the fields one of whose variants occurs in
\* the cleaned header
MatchingFields(h) ==
    {i \in 1..Len(SCHEMA_MAPPING) :
        \E v \in Range(SCHEMA_MAPPING[i].variants) : includes(cleanHeader(h), v)}

\* C5: normalizeHeader returns the first canonical field, in table order, one
\* of whose variants occurs in the cleaned header, and the original header
\* unchanged when no field matches.
C5_FirstMatchingFieldWins ==
    Returned("normalizeHeader") =>
        LET m == MatchingFields(header)
        IN  IF m = {} THEN standard = header
            ELSE standard = CanonicalOrder[CHOOSE i \in m : \A j \in m : i <= j]

\* a header that matches several canonical fields
C5_Witness ==
    /\ Returned("normalizeHeader")
    /\ Cardinality(MatchingFields(header)) >= 2
    /\ standard = "ID_Transacao"

\* C6: "Valor Total (R$)" normalizes to Receita_Total and "Qtd Vendida" to
\* Quantidade; a header containing a quantity variant (qtd, quantidade,
\* unidades) normalizes to Quantidade.
C6_QuantityHeaders ==
    Returned("normalizeHeader") =>
        /\ header = "Valor Total (R$)" => standard = "Receita_Total"
        /\ header = "Qtd Vendida" => standard = "Quantidade"
        /\ (\E v \in {"qtd", "quantidade", "unidades"} : includes(cleanHeader(header), v))
           => standard = "Quantidade"

\* the cell a/b/y
SlashDate(a, b, y) == a \o "/" \o b \o "/" \o y

\* the ISO text of a date
IsoDate(year, month, day) ==
    IntToString(year) \o "-" \o padStart2(IntToString(month)) \o "-"
    \o padStart2(IntToString(day))

\* C7 as claimed: on a slash date the first group is the day and the second
\* the month, whether or not the first group exceeds 12.
C7_SlashDateIsDayFirst ==
    Returned("parseDate") =>
        \A a \in NumStrings, b \in NumStrings, y \in YearStrings :
            dateStr = SlashDate(a, b, y) =>
                /\ parsed # null
                /\ parsed.month = DigitsValue(b)
                /\ parsed.date = IsoDate(DigitsValue(y), DigitsValue(b), DigitsValue(a))

\* C7 as amended: on a slash date the first group is the day when it is
\* greater than 12; otherwise the first group is the month and the second the
\* day, so "05/03/2024" yields month 5 and day 3.
C7_SlashDateIsMonthFirstUpTo12 ==
    Returned("parseDate") =>
        /\ \A a \in NumStrings, b \in NumStrings, y \in YearStrings :
              dateStr = SlashDate(a, b, y) =>
                  LET first  == DigitsValue(a)
                      second == DigitsValue(b)
                      day    == IF first > 12 THEN first ELSE second
                      month  == IF first > 12 THEN second ELSE first
                  IN  /\ parsed # null
                      /\ parsed.month = month
                      /\ parsed.year = DigitsValue(y)
                      /\ parsed.date = IsoDate(DigitsValue(y), month, day)
        /\ dateStr = "05/03/2024" => parsed.month = 5 /\ parsed.date = "2024-05-03"

C7_Witness ==
    /\ Returned("parseDate")
    /\ dateStr = "05/03/2024"
    /\ parsed # null /\ parsed.month = 5

\* C8: a row produced by normalizeRow that has Mes set has 1 <= Mes <= 12 and
\* Trimestre = ceil(Mes / 3) with 1 <= Trimestre <= 4.
C8_MonthAndQuarterInRange ==
    (Returned("normalizeRow") /\ Has(normalized, "Mes")) =>
        /\ normalized.Mes \in 1..12
        /\ Has(normalized, "Trimestre")
        /\ 3 * normalized.Trimestre >= normalized.Mes
        /\ 3 * (normalized.Trimestre - 1) < normalized.Mes
        /\ normalized.Trimestre \in 1..4

\* the last column of the sheet mapped to the canonical field std
LastColumn(std) ==
    headerMap[CHOOSE i \in 1..Len(headerMap) :
                  /\ headerMap[i].standard = std
                  /\ \A j \in (i + 1)..Len(headerMap) : headerMap[j].standard # std]

\* the text is a whole number: an optional sign and digits, spaces around
IsWholeNumber(s) ==
    LET t == trim(s)
        d == IF t # "" /\ CharAt(t, 1) \in {"-", "+"} THEN Tail(t) ELSE t
    IN  d # "" /\ AllDigits(d)

\* C9: a row produced for a mapped Quantidade column has Quantidade a
\* non-negative integer, 0 whenever the source cell is non-numeric or absent.
C9_QuantityNonNegative ==
    (Returned("normalizeRow") /\ Has(normalized, "Quantidade")) =>
        LET col == LastColumn("Quantidade").original
        IN  /\ normalized.Quantidade >= 0
            /\ (~Has(row, col) \/ ~IsWholeNumber(row[col])) => normalized.Quantidade = 0

RECURSIVE Pow10(_)
Pow10(k) == IF k = 0 THEN 1 ELSE 10 * Pow10(k - 1)

\* the decimal r is the product of the integer q and the decimal p
IsProduct(r, q, p) == r.n * Pow10(p.k) = q * p.n * Pow10(r.k)

\* the row as parsed from the source, before any derivation
ParsedRow == normalizeEntries(EmptyObject, row, headerMap, 1)

\* Receita_Total is absent or zero, Quantidade and Preco_Unitario are present
\* and nonzero
RevenueDerivable(n) ==
    /\ Has(n, "Receita_Total") => n.Receita_Total.n = 0
    /\ Has(n, "Quantidade") /\ n.Quantidade # 0
    /\ Has(n, "Preco_Unitario") /\ n.Preco_Unitario.n # 0

\* C10: normalizeRow derives Receita_Total = Quantidade x Preco_Unitario
\* exactly when the normalized Receita_Total is absent or zero and both
\* Quantidade and Preco_Unitario are present and nonzero; otherwise
\* Receita_Total keeps the value parsed from the source, or stays absent.
C10_RevenueDerivedExactlyWhenMissing ==
    Returned("normalizeRow") =>
        IF RevenueDerivable(ParsedRow)
        THEN /\ Has(normalized, "Receita_Total")
             /\ IsProduct(normalized.Receita_Total, ParsedRow.Quantidade,
                          ParsedRow.Preco_Unitario)
             /\ \A f \in DOMAIN ParsedRow \ {"Receita_Total"} :
                    Has(normalized, f) /\ normalized[f] = ParsedRow[f]
        ELSE normalized = ParsedRow

\* a sheet with a Receita_Total column whose cell is 0, and quantity and price
C10_Witness ==
    /\ Returned("normalizeRow")
    /\ Has(ParsedRow, "Receita_Total") /\ ParsedRow.Receita_Total = Zero
    /\ RevenueDerivable(ParsedRow)
    /\ normalized.Receita_Total # Zero

\* C11: normalizeRow applied to a row it returned, with every header mapped to
\* itself, returns a row whose field values equal those of the input row.
C11_NormalizeRowIdempotent ==
    (Returned("normalizeRow") /\ headerMap = IdentityMap(row)) => normalized = row

\* analyzeData returned a result for a non-empty input
Analyzed ==
    /\ Returned("analyzeData")
    /\ analysis # TypeError
    /\ Len(data) > 0

\* the context asks for a ranking: topN is a positive integer
TopNRequested == Has(context, "topN") /\ context.topN > 0

\* the group a row belongs to under dimension dim
KeyOf(r, dim) == IF Has(r, dim) /\ r[dim] # "" THEN r[dim] ELSE "Outros"

Keys(dim) == {KeyOf(data[i], dim) : i \in 1..Len(data)}

Members(k, dim) == {i \in 1..Len(data) : KeyOf(data[i], dim) = k}

FirstSeen(k, dim) == CHOOSE i \in Members(k, dim) : \A j \in Members(k, dim) : i <= j

\* the sum of a numeric field over the rows of index set S, missing counting 0
RECURSIVE SumOver(_, _)
SumOver(S, field) ==
    IF S = {} THEN 0
    ELSE LET i == CHOOSE j \in S : TRUE
         IN  (IF Has(data[i], field) THEN data[i][field] ELSE 0)
             + SumOver(S \ {i}, field)

Revenue(k, dim) == SumOver(Members(k, dim), "Receita_Total")

\* the place of group k: after the groups of larger revenue and after those
\* of equal revenue seen earlier
Rank(k, dim) ==
    1 + Cardinality({o \in Keys(dim) :
            \/ Revenue(o, dim) > Revenue(k, dim)
            \/ /\ Revenue(o, dim) = Revenue(k, dim)
               /\ FirstSeen(o, dim) < FirstSeen(k, dim)})

Min(a, b) == IF a < b THEN a ELSE b

Dimension ==
    IF context.produtos = <<>> THEN "Produto"
    ELSE IF context.categorias = <<>> THEN "Categoria"
    ELSE "Regiao"

\* C13: the grouping dimension is Produto when context.produtos is empty,
\* otherwise Categoria when context.categorias is empty, otherwise Regiao;
\* rows whose value for it is missing are counted in the group "Outros", and
\* each group's receita_total, quantidade_total and ticket_medio are the sum
\* of revenue, the sum of quantity and revenue / count over its rows.
C13_GroupingDimensionAndSums ==
    (Analyzed /\ (TopNRequested \/ context.comparison))
    => LET g == analysis.grupos
       IN  /\ analysis.grupo_por = Dimension
           /\ Len(g) = Cardinality(Keys(Dimension))
                  => {g[i].nome : i \in 1..Len(g)} = Keys(Dimension)
           /\ \A i \in 1..Len(data) :
                 ~Has(data[i], Dimension) => i \in Members("Outros", Dimension)
           /\ \A i \in 1..Len(g) :
                 LET rows == Members(g[i].nome, Dimension)
                 IN  /\ rows # {}
                     /\ g[i].receita_total = SumOver(rows, "Receita_Total")
                     /\ g[i].quantidade_total = SumOver(rows, "Quantidade")
                     /\ g[i].ticket_medio.den > 0
                     /\ g[i].ticket_medio.num * Cardinality(rows)
                            = g[i].receita_total * g[i].ticket_medio.den

\* grouping by Regiao with a row that has no Regiao
C13_Witness ==
    /\ Analyzed
    /\ Has(analysis, "grupo_por") /\ analysis.grupo_por = "Regiao"
    /\ \E i \in 1..Len(data) : ~Has(data[i], "Regiao")
    /\ \E i \in 1..Len(analysis.grupos) :
          /\ analysis.grupos[i].nome = "Outros"
          /\ Cardinality(Members("Outros", "Regiao")) >= 2

\* C14: grouping is computed only when topN is set or comparison is true: with
\* topN absent and comparison false grupos is empty and there is no grupo_por;
\* with any topN parseQuery produces from "top <digits>" grouping is computed.
C14_GroupingOnlyWhenRequested ==
    Analyzed =>
        /\ (~Has(context, "topN") /\ ~context.comparison)
              => analysis.grupos = <<>> /\ ~Has(analysis, "grupo_por")
        /\ Has(context, "topN") => Has(analysis, "grupo_por")

\* the phrases of s at character i: a term of TopTerms after a word boundary,
\* sp white-space characters, then a run of n digits that no digit follows
TopPhrases(s) ==
    {p \in (1..Len(s)) \X TopTerms \X (0..Len(s)) \X (1..Len(s)) :
        LET i    == p[1]
            from == p[1] + Len(p[2])
            sp   == p[3]
            n    == p[4]
        IN  /\ from + sp + n - 1 <= Len(s)
            /\ i = 1 \/ ~IsWordChar(CharAt(s, i - 1))
            /\ SubSeq(s, i, from - 1) = p[2]
            /\ \A j \in from..(from + sp - 1) : IsSpace(CharAt(s, j))
            /\ \A j \in (from + sp)..(from + sp + n - 1) : IsDigit(CharAt(s, j))
            /\ from + sp + n <= Len(s) => ~IsDigit(CharAt(s, from + sp + n))}

\* C15: parseQuery sets topN to the integer of the first phrase (top | maior |
\* melhor | principal, optional white space, digits) of the lowercased query,
\* leaves it absent when there is none, and a topN present is positive.
C15_TopNIsFirstMatchAndPositive ==
    Returned("parseQuery") =>
        LET lower   == toLowerCase(query)
            phrases == TopPhrases(lower)
        IN  /\ phrases = {} <=> ~Has(context, "topN")
            /\ phrases # {} =>
                  LET p == CHOOSE f \in phrases : \A o \in phrases : f[1] <= o[1]
                      d == p[1] + Len(p[2]) + p[3]
                  IN  context.topN = DigitsValue(SubSeq(lower, d, d + p[4] - 1))
            /\ Has(context, "topN") => context.topN > 0

\* C16: for a non-empty input receita_total is the sum of Receita_Total and
\* quantidade_total the sum of Quantidade over all rows, a missing value
\* counting 0; total_registros is the number of rows and ticket_medio is
\* receita_total / total_registros.
C16_TotalsAreSums ==
    Analyzed =>
        /\ analysis.receita_total = SumOver(1..Len(data), "Receita_Total")
        /\ analysis.quantidade_total = SumOver(1..Len(data), "Quantidade")
        /\ analysis.total_registros = Len(data)
        /\ analysis.ticket_medio.den > 0
        /\ analysis.ticket_medio.num * Len(data)
               = analysis.receita_total * analysis.ticket_medio.den

\* totals over several rows, one of them without Quantidade
C16_Witness ==
    /\ Analyzed
    /\ Len(data) >= 2
    /\ ~Has(data[Len(data)], "Quantidade")
    /\ analysis.receita_total > 0 /\ analysis.quantidade_total > 0

\* the names of the months
MonthNames ==
    <<"janeiro", "fevereiro", "março", "abril", "maio", "junho", "julho",
      "agosto", "setembro", "outubro", "novembro", "dezembro">>

\* the distinct values of a field present in the input rows
Present(field) == {data[i][field] : i \in {j \in 1..Len(data) : Has(data[j], field)}}

Least(S) == CHOOSE x \in S : \A y \in S : x <= y

Greatest(S) == CHOOSE x \in S : \A y \in S : y <= x

\* C17: the period label follows the distinct years and months present in
\* the rows: one year and one month give "<MonthName>/<Year>", one year and
\* several months give "<Year>", several years give "<minYear> a <maxYear>".
C17_PeriodLabel ==
    Analyzed =>
        LET years  == Present("Ano")
            months == Present("Mes")
            label  == analysis.periodo_analizado
        IN  /\ (Cardinality(years) = 1 /\ Cardinality(months) = 1)
                  => label = MonthNames[Least(months)] \o "/" \o IntToString(Least(years))
            /\ (Cardinality(years) = 1 /\ Cardinality(months) > 1)
                  => label = IntToString(Least(years))
            /\ Cardinality(years) > 1
                  => label = IntToString(Least(years)) \o " a "
                                \o IntToString(Greatest(years))

\* the hundredths a text d...d.dd with an optional sign stands for
Hundredths(t) ==
    LET neg  == CharAt(t, 1) = "-"
        body == IF neg THEN Tail(t) ELSE t
        h    == 100 * DigitsValue(SubSeq(body, 1, Len(body) - 3))
                + DigitsValue(SubSeq(body, Len(body) - 1, Len(body)))
    IN  IF neg THEN -h ELSE h

\* digits, a point and exactly two digits, after an optional sign
TwoDecimals(t) ==
    LET body == IF t # "" /\ CharAt(t, 1) = "-" THEN Tail(t) ELSE t
    IN  /\ Len(body) >= 4
        /\ CharAt(body, Len(body) - 2) = "."
        /\ AllDigits(SubSeq(body, 1, Len(body) - 3))
        /\ AllDigits(SubSeq(body, Len(body) - 1, Len(body)))

\* C18: when growth is computed on a previous revenue other than 0,
\* crescimento_pct is (last.receita - prev.receita) / prev.receita x 100
\* rounded to two decimal places and written with exactly two decimals:
\* monthly revenues 1000 then 1200 give "20.00".
C18_GrowthRoundedToTwoDecimals ==
    (Analyzed /\ Has(analysis, "variacao_mensal"))
    => LET m    == analysis.evolucao_mensal
           last == m[Len(m)].receita
           prev == m[Len(m) - 1].receita
           text == analysis.variacao_mensal.crescimento_pct
       IN  prev # 0 =>
             /\ TwoDecimals(text)
             /\ 2 * Abs(10000 * (last - prev) - Hundredths(text) * prev) <= Abs(prev)
             /\ (prev = 1000 /\ last = 1200) => text = "20.00"

\* growth from 1000 in one month to 1200 in the next
C18_Witness ==
    /\ Analyzed
    /\ Has(analysis, "variacao_mensal")
    /\ analysis.evolucao_mensal[1].receita = 1000
    /\ analysis.evolucao_mensal[2].receita = 1200
    /\ analysis.variacao_mensal.crescimento_pct = "20.00"

\* C19: on an empty row sequence analyzeData returns total_registros = 0 with
\* the marker erro, the totals 0, grupos empty, and no grupo_por,
\* variacao_mensal or evolucao_mensal, whatever the context.
C19_EmptyInputReturnsMarker ==
    (Returned("analyzeData") /\ data = <<>>) =>
        /\ analysis # TypeError
        /\ DOMAIN analysis = {"total_registros", "receita_total", "quantidade_total",
                               "ticket_medio", "periodo_analizado", "grupos", "erro"}
        /\ analysis.total_registros = 0
        /\ analysis.receita_total = 0
        /\ analysis.quantidade_total = 0
        /\ analysis.ticket_medio.num = 0
        /\ analysis.periodo_analizado = ""
        /\ analysis.grupos = <<>>
        /\ analysis.erro = "Nenhum dado encontrado para os filtros especificados"

\* an empty input under a context that asks for a ranking and a comparison
C19_Witness ==
    /\ Returned("analyzeData")
    /\ data = <<>>
    /\ context.comparison /\ TopNRequested
    /\ Has(analysis, "erro")

\* the handler made the call named
Called(name) == \E i \in 1..Len(calls) : calls[i] = name

\* C20: when the filtered rows are empty and the context has years or months,
\* the handler takes the period-not-found branch (the model is given the
\* periods there are, analyzeData is not called) and not the no-spreadsheets
\* branch, which is taken only when the user has no stored spreadsheet.
C20_PeriodNotFoundBranch ==
    /\ (Called("filterData") /\ pc # "serve.filtered"
            /\ filtered = <<>> /\ (context.years # <<>> \/ context.months # <<>>))
       => /\ Called("model.fetch")
          /\ fetched.branch = "periodNotFound"
          /\ fetched.periods = availablePeriods(data)
          /\ ~Called("analyzeData")
          /\ analysis = null
    /\ (Called("model.fetch") /\ fetched.branch = "noSpreadsheets")
       => store[user.id] = <<>> /\ ~Called("filterData")

\* only January 2024 is stored and the question is about March
C20_Witness ==
    /\ pc = "serve.return"
    /\ Called("filterData") /\ Called("model.fetch")
    /\ query = "vendas em março"
    /\ Len(data) > 0
    /\ \A i \in 1..Len(data) :
          /\ Has(data[i], "Ano") /\ data[i].Ano = 2024
          /\ Has(data[i], "Mes") /\ data[i].Mes = 1
    /\ context.months = <<3>>
    /\ filtered = <<>>
    /\ fetched.branch = "periodNotFound"
    /\ fetched.periods = "janeiro/2024"
    /\ response.status = 200

\* whether character i of s starts a token 20dd that no word character touches
IsYearToken(s, i) ==
    /\ i + 3 <= Len(s)
    /\ SubSeq(s, i, i + 1) = "20"
    /\ IsDigit(CharAt(s, i + 2)) /\ IsDigit(CharAt(s, i + 3))
    /\ (i = 1 \/ ~IsWordChar(CharAt(s, i - 1)))
    /\ (i + 3 = Len(s) \/ ~IsWordChar(CharAt(s, i + 4)))

NoDuplicates(seq) == \A i, j \in 1..Len(seq) : i # j => seq[i] # seq[j]

\* C21: whenever the handler describes the scope as filtered (N of M
\* records), the analysis sent with it was computed over exactly those N
\* filtered rows: total_registros = N, for every parsed context.
C21_FilteredScopeIsAnalyzedScope ==
    (Called("model.fetch") /\ fetched.branch = "analysis"
        /\ startsAt(fetched.scope, 1, "Análise filtrada"))
    => /\ fetched.scope = "Análise filtrada (" \o IntToString(Len(filtered))
                          \o " de " \o IntToString(Len(data)) \o " registros)"
       /\ analysis.total_registros = Len(filtered)

\* C22: the years parseQuery returns are exactly the distinct four-digit
\* tokens 20xx of the query, each of them once however often it is written.
C22_YearsAreDistinctTokens ==
    Returned("parseQuery") =>
        /\ Range(context.years) =
              {DigitsValue(SubSeq(query, i, i + 3)) :
                  i \in {j \in 1..Len(query) : IsYearToken(query, j)}}
        /\ NoDuplicates(context.years)

\* C23: month m is in the months parseQuery returns exactly when its
\* Portuguese name or its three-letter abbreviation is a substring of the
\* lowercased query, and no month is there twice.
C23_MonthsBySubstring ==
    Returned("parseQuery") =>
        LET lower == toLowerCase(query)
        IN  /\ \A m \in 1..12 :
                  (m \in Range(context.months))
                  <=> \/ includes(lower, MonthNames[m])
                      \/ includes(lower, SubSeq(MonthNames[m], 1, 3))
            /\ Range(context.months) \subseteq 1..12
            /\ NoDuplicates(context.months)

\* "março" holds both the name and the abbreviation "mar"
C23_Witness ==
    /\ Returned("parseQuery")
    /\ includes(toLowerCase(query), "março")
    /\ includes(toLowerCase(query), "2024")
    /\ context.months = <<3>>

\* the elements of seq at the positions of S, in the order of seq
RECURSIVE Pick(_, _, _)
Pick(seq, S, i) ==
    IF i > Len(seq) THEN <<>>
    ELSE (IF i \in S THEN <<seq[i]>> ELSE <<>>) \o Pick(seq, S, i + 1)

\* C24: the rows filterData returns are a subsequence of its input (a row as
\* often as its kept occurrences, in the input's order), and filtering the
\* result again under the same context returns it unchanged.
C24_FilterIsStableSubsequence ==
    Returned("filterData") =>
        /\ \E S \in SUBSET (1..Len(data)) : filtered = Pick(data, S, 1)
        /\ filterData(filtered, context) = filtered

\* two different rows kept and one dropped between or around them
C24_Witness ==
    /\ Returned("filterData")
    /\ Len(data) = 3 /\ Len(filtered) = 2
    /\ filtered[1] # filtered[2]
    /\ Len(context.years) > 0

\* how often name is in the log, and where it is first
Count(name) == Cardinality({i \in 1..Len(calls) : calls[i] = name})
IndexOf(name) == CHOOSE i \in 1..Len(calls) : calls[i] = name

\* C25: one request reads the database at most once and calls the model at
\* most once, and on the analysis path the model is called only after
\* parseQuery, filterData and analyzeData have completed, in that order.
C25_OneReadOneModelCallInOrder ==
    /\ Count("db.select") <= 1
    /\ Count("model.fetch") <= 1
    /\ (Called("model.fetch") /\ fetched.branch = "analysis")
       => /\ Count("parseQuery") = 1 /\ Count("filterData") = 1
          /\ Count("analyzeData") = 1
          /\ IndexOf("db.select") < IndexOf("parseQuery")
          /\ IndexOf("parseQuery") < IndexOf("filterData")
          /\ IndexOf("filterData") < IndexOf("analyzeData")
          /\ IndexOf("analyzeData") < IndexOf("model.fetch")

\* a request that went down the whole analysis path and was streamed
C25_Witness ==
    /\ pc = "serve.return"
    /\ calls = <<"auth.getUser", "db.select", "parseQuery", "filterData",
                 "analyzeData", "model.fetch">>
    /\ fetched.branch = "analysis"
    /\ response = Stream(200)

\* C27: the handler answers 200 text/event-stream only when the gateway
\* answered OK; on every path a gateway status that is not OK is answered
\* with a JSON error of status 429, 402 or 500.
C27_StreamOnlyWhenUpstreamOk ==
    (pc = "serve.return" /\ Called("model.fetch")) =>
        /\ response.contentType = "text/event-stream"
              => response.status = 200 /\ response.upstream = 200
        /\ response.upstream \notin {NetworkError, 200}
              => /\ response.contentType = "application/json"
                 /\ response.status =
                       IF response.upstream \in {429, 402}
                       THEN response.upstream ELSE 500

\* C29: normalizeHeader maps each of the eight canonical column names to
\* itself.
C29_CanonicalNamesAreFixed ==
    (Returned("normalizeHeader") /\ header \in CanonicalHeaders)
        => standard = header

\* C30: a request without Authorization header, or whose token is not
\* verified, is answered 401 and neither reads the spreadsheets nor calls the
\* model; every read of the spreadsheets returns the rows of the verified
\* user and no other.
C30_UnauthorizedReadsNothing ==
    /\ (pc = "serve.return" /\ req.method # "OPTIONS" /\ ~req.authorization)
       => response.status = 401 /\ calls = <<>>
    /\ (pc = "serve.return" /\ Called("auth.getUser") /\ user = null)
       => /\ response.status = 401
          /\ ~Called("db.select") /\ ~Called("model.fetch")
    /\ Called("db.select") => user # null
    /\ (Called("db.select")
          /\ ~(pc = "serve.return" /\ response.error = "Erro ao buscar dados"))
       => spreadsheets = store[user.id]

\* the token is not verified while the table holds spreadsheets of two users
C30_Witness ==
    /\ pc = "serve.return"
    /\ req.authorization
    /\ calls = <<"auth.getUser">>
    /\ user = null
    /\ store["ana"] # <<>> /\ store["bia"] # <<>>
    /\ response = JsonError(401, "Não autorizado")

\* C26: a sync-google-drive request that ends in an error response leaves the
\* spreadsheets stored before the request as they were.
C26_FailedSyncKeepsSpreadsheets ==
    (pc = "sync.return" /\ response.status # 200) => store = stored

\* the strings of seq one after the other
RECURSIVE Concat(_)
Concat(seq) == IF seq = <<>> THEN "" ELSE seq[1] \o Concat(Tail(seq))

\* the assistant messages after the greeting
AssistantReplies == SelectSeq(Tail(messages), LAMBDA msg : msg.role = "assistant")

\* every call of handleSend has read its stream to the end, each stream
\* having brought content
AllStreamsFinished ==
    /\ pc = "page"
    /\ streams # <<>>
    /\ \A n \in 1..Len(streams) :
          streams[n].at = "done" /\ streams[n].body # <<>>

\* C28: once all streams have finished, whatever the interleaving of the
\* calls of handleSend, the messages hold exactly one assistant message per
\* question sent, each one's content being the deltas of one stream, its own,
\* one after the other.
C28_OneReplyPerQuestion ==
    AllStreamsFinished =>
        /\ Len(AssistantReplies) = Len(streams)
        /\ \E own \in Permutations(1..Len(streams)) :
              \A n \in 1..Len(streams) :
                  AssistantReplies[n].content = Concat(streams[own[n]].body)

=============================================================================
